---- MODULE Spec2Model ----
(***************************************************************************)
(* A model of the CBOR serializer of k8s.io/apimachinery                   *)
(* (runtime/serializer/cbor): Encode, Decode, RecognizesData,              *)
(* gvkWithDefaults, the default meta-factory and the strict/lax unmarshal   *)
(* helper, over a byte-level subset of RFC 8949.                            *)
(*                                                                         *)
(* Bytes are naturals 0..255, byte strings and Go strings are sequences of *)
(* bytes.  A nil pointer, nil error or nil object is the string "nil".     *)
(***************************************************************************)
EXTENDS Integers, Sequences, FiniteSets, TLC

VARIABLES
    pc,       \* position of the single caller: "idle" or a label inside Encode/Decode/RecognizesData
    s,        \* the serializer: [strict, metaFactory]
    encObj,   \* Encode: the obj argument
    w,        \* Encode: the io.Writer: [out, calls, errs]
    encRuns,  \* Encode: how many times the encoder ran
    encRet,   \* Encode: the returned error
    data,     \* Decode / RecognizesData: the data argument
    gvk,      \* Decode: the caller's default GVK, or NoGVK
    into,     \* Decode: the into argument, an object id or NilObj
    heap,     \* Decode: the objects, by id
    heap0,    \* Decode: each object as it was when Decode got hold of it
    actual,   \* Decode: the local *actual, or NoGVK
    obj,      \* Decode: the local obj (an object id or NilObj)
    typer,    \* Decode: what s.typer.ObjectKinds(into) answers, once asked
    creater,  \* Decode: what s.creater.New(gvk) answers, once asked
    log,      \* Decode: the collaborators called so far, in order
    decRet,   \* Decode: the returned (obj, gvk, err)
    recRet,   \* RecognizesData: the returned (ok, unknown, err)
    gvkArgs,  \* gvkWithDefaults: the arguments (actual, defaultGVK) of the last application
    gvkRet,   \* gvkWithDefaults: its result
    unionVal, \* union codecs: the value handed to MarshalJSON / MarshalCBOR
    wire,     \* union codecs: the bytes (and error) produced by a Marshal, or the input
    receiver0,    \* union codecs: the receiver of the Unmarshal before the call
    receiver,     \* union codecs: the receiver of the Unmarshal
    unmarshalErr, \* union codecs: the error the Unmarshal returned
    modeIn,       \* decode modes: the arguments (data, destination) of the two Unmarshal calls
    strictRet,    \* decode modes: what modes.Decode.Unmarshal returned and left in the destination
    laxRet,       \* decode modes: what modes.DecodeLax.Unmarshal returned and left in the destination
    pools,        \* pooled serializers: the items of each sync.Pool
    made,         \* pooled serializers: how many items the New function of each pool has made
    calls,        \* pooled serializers: the call of each goroutine: [op, at, isU, item, wrote, ret]
    rs,           \* Skimmer: the fields limit, buffer and status
    stream,       \* Skimmer: the bytes the callers are about to write, in order
    pos,          \* Skimmer: how many of them the connection has taken
    lastWrite,    \* Skimmer: the last Write: its argument p and what the connection answered
    connCall,     \* Skimmer: what the last Write handed to the connection, and how many times
    writeRet,     \* Skimmer: what the last Write returned
    statusRet     \* Skimmer: what the last Status() returned

vars == <<pc, s, encObj, w, encRuns, encRet, data, gvk, into, heap, heap0, actual, obj, typer, creater,
          log,
          decRet, recRet, gvkArgs, gvkRet, unionVal, wire, receiver0, receiver, unmarshalErr,
          modeIn, strictRet, laxRet, pools, made, calls,
          rs, stream, pos, lastWrite, connCall, writeRet, statusRet>>

encVars == <<encObj, w, encRuns, encRet>>
decVars == <<data, gvk, into, heap, heap0, actual, obj, typer, creater, log, decRet>>
gvkVars == <<gvkArgs, gvkRet>>
unionVars == <<unionVal, wire, receiver0, receiver, unmarshalErr>>
modeVars == <<modeIn, strictRet, laxRet>>
poolVars == <<pools, made, calls>>
skimVars == <<rs, stream, pos, lastWrite, connCall, writeRet, statusRet>>
restVars == <<modeVars, poolVars, skimVars>>

(***************************************************************************)
(* Bounds of the model.                                                    *)
(***************************************************************************)
\* the longest input handed to RecognizesData
MaxRecLen == 4
\* the most entries of a CBOR map handed to Decode
MaxPairs == 2

(***************************************************************************)
(* Byte strings.                                                           *)
(***************************************************************************)
Nil == "nil"

\* "apiVersion", "kind", and the short strings used as field values
StrApiVersion == <<97, 112, 105, 86, 101, 114, 115, 105, 111, 110>>
StrKind == <<107, 105, 110, 100>>
StrZ == <<122>>
StrG == <<103>>
StrH == <<104>>
StrV == <<118>>
StrW == <<119>>
StrK == <<107>>
StrJ == <<106>>
StrSlash == <<47>>
StrGV == <<103, 47, 118>>
StrGSlash == <<103, 47>>

Take(b, n) == SubSeq(b, 1, n)
Drop(b, n) == SubSeq(b, n + 1, Len(b))

\* bytes.HasPrefix
HasPrefix(b, prefix) ==
    /\ Len(b) >= Len(prefix)
    /\ Take(b, Len(prefix)) = prefix

Min(a, b) == IF a < b THEN a ELSE b

(***************************************************************************)
(* Errors.  An error value is a record; the nil error is NoError.  cause is *)
(* the type of the wrapped error ("" when nothing is wrapped) and index the *)
(* map-entry index an UnknownFieldError or DupMapKeyError carries.          *)
(***************************************************************************)
Err(type) == [type |-> type, cause |-> "", index |-> 0]
ErrAt(type, j) == [type |-> type, cause |-> "", index |-> j]
Wrap(type, e) == [type |-> type, cause |-> e.type, index |-> e.index]
NoError == Err(Nil)

(***************************************************************************)
(* The decode modes (internal/modes).  Decode is the strict mode; DecodeLax *)
(* is built from Decode's options with the unknown-field bit cleared.       *)
(***************************************************************************)
\* a variant of the mode that lets duplicate map keys pass
DecodeDupMapKeyQuiet ==
    [ DupMapKey         |-> "DupMapKeyQuiet",
      TimeTag           |-> "DecTagOptional",
      MaxNestedLevels   |-> 64,
      MaxArrayElements  |-> 1024,
      MaxMapPairs       |-> 1024,
      IndefLength       |-> "IndefLengthAllowed",
      TagsMd            |-> "TagsAllowed",
      IntDec            |-> "IntDecConvertSigned",
      MapKeyByteString  |-> "MapKeyByteStringForbidden",
      ExtraReturnErrors |-> {"ExtraDecErrorUnknownField"},
      DefaultMapType    |-> "map[string]interface{}",
      UTF8              |-> "UTF8RejectInvalid" ]

Decode ==
    [ DupMapKey         |-> "DupMapKeyEnforcedAPF",
      TimeTag           |-> "DecTagOptional",
      MaxNestedLevels   |-> 64,
      MaxArrayElements  |-> 1024,
      MaxMapPairs       |-> 1024,
      IndefLength       |-> "IndefLengthAllowed",
      TagsMd            |-> "TagsAllowed",
      IntDec            |-> "IntDecConvertSigned",
      MapKeyByteString  |-> "MapKeyByteStringForbidden",
      ExtraReturnErrors |-> {"ExtraDecErrorUnknownField"},
      DefaultMapType    |-> "map[string]interface{}",
      UTF8              |-> "UTF8RejectInvalid" ]

\* a variant of the lax mode that clears the duplicate-key check as well
DecodeLaxDupMapKeyQuiet ==
    [DecodeDupMapKeyQuiet EXCEPT !.ExtraReturnErrors = @ \ {"ExtraDecErrorUnknownField"},
                                 !.DefaultMapType = "map[string]interface{}"]

DecodeLax ==
    [Decode EXCEPT !.ExtraReturnErrors = @ \ {"ExtraDecErrorUnknownField"},
                   !.DefaultMapType = "map[string]interface{}"]

(***************************************************************************)
(* The CBOR data items of the model: unsigned integers 0..23, definite     *)
(* byte and text strings shorter than 24 bytes, definite maps of fewer     *)
(* than 24 pairs, definite arrays of fewer than 24 elements,               *)
(* false/true/null, and two-byte tag numbers (0xd9 nn nn).                 *)
(* Any other initial byte is a syntax error of the model's decoder.        *)
(***************************************************************************)
IsUint(h) == h \in 0..23
IsByteString(h) == h \in 64..87
IsTextString(h) == h \in 96..119
IsArray(h) == h \in 128..151
IsMap(h) == h \in 160..183
IsSimple(h) == h \in {244, 245, 246}
IsNull(h) == h = 246
IsTag(h) == h = 217

\* the argument of a short initial byte: its low five bits
Arg(h) == h % 32

\* the content of the string whose initial byte is b[i]
StrAt(b, i) == SubSeq(b, i + 1, i + Arg(b[i]))

\* Well-formedness scan: the index after the data item starting at b[i]; 0 when
\* the input ends inside the item, -1 on a syntax error, -2 when a map exceeds
\* the mode's MaxMapPairs, -3 when an array exceeds its MaxArrayElements.
RECURSIVE SkipItem(_, _, _), SkipItems(_, _, _, _)
SkipItem(mode, b, i) ==
    IF i > Len(b) THEN 0
    ELSE CASE IsUint(b[i]) \/ IsSimple(b[i]) -> i + 1
           [] IsByteString(b[i]) \/ IsTextString(b[i]) ->
                IF i + Arg(b[i]) > Len(b) THEN 0 ELSE i + 1 + Arg(b[i])
           [] IsArray(b[i]) ->
                IF Arg(b[i]) > mode.MaxArrayElements THEN -3
                ELSE SkipItems(mode, b, i + 1, Arg(b[i]))
           [] IsMap(b[i]) ->
                IF Arg(b[i]) > mode.MaxMapPairs THEN -2
                ELSE SkipItems(mode, b, i + 1, 2 * Arg(b[i]))
           [] IsTag(b[i]) ->
                IF i + 2 > Len(b) THEN 0 ELSE SkipItem(mode, b, i + 3)
           [] OTHER -> -1

SkipItems(mode, b, i, n) ==
    IF n = 0 \/ i <= 0 THEN i
    ELSE SkipItems(mode, b, SkipItem(mode, b, i), n - 1)

\* the error of the well-formedness pass of Unmarshal, or NoError
ScanError(b, j) ==
    CASE j = 0 -> Err("UnexpectedEOF")
      [] j = -1 -> Err("SyntaxError")
      [] j = -2 -> Err("MaxMapPairsError")
      [] j = -3 -> Err("MaxArrayElementsError")
      [] j <= Len(b) -> Err("ExtraneousDataError")
      [] OTHER -> NoError

WellFormed(mode, b) ==
    IF Len(b) = 0 THEN Err("EOF") ELSE ScanError(b, SkipItem(mode, b, 1))

\* the index of the item under the tags starting at b[i]
RECURSIVE Untag(_, _)
Untag(b, i) == IF IsTag(b[i]) THEN Untag(b, i + 3) ELSE i

\* a text string is valid when all its bytes are ASCII (the model's inputs hold no
\* multi-byte UTF-8 sequence, so a byte >= 0x80 is an invalid sequence)
Utf8Valid(str) == \A k \in 1..Len(str) : str[k] < 128

(***************************************************************************)
(* Untyped values (interface{}): [t, v] with t the Go type and v its bytes. *)
(* A map[string]interface{} is [isNil, m] with m a function from keys.      *)
(***************************************************************************)
Val(t, v) == [t |-> t, v |-> v]
NilMap == [isNil |-> TRUE, m |-> <<>>]
EmptyMap == [isNil |-> FALSE, m |-> <<>>]
MapPut(mv, k, v) ==
    [isNil |-> FALSE,
     m |-> [x \in (DOMAIN mv.m) \cup {k} |-> IF x = k THEN v ELSE mv.m[x]]]
MapHas(mv, k) == k \in DOMAIN mv.m

\* the scalar item at b[i], under no tag, decoded into interface{}: [err, val]
ScalarAt(mode, b, i) ==
    CASE IsUint(b[i]) -> [err |-> NoError, val |-> Val("int64", <<b[i]>>)]
      [] IsTextString(b[i]) ->
            IF mode.UTF8 = "UTF8RejectInvalid" /\ ~Utf8Valid(StrAt(b, i))
            THEN [err |-> Err("SemanticError"), val |-> Val("nil", <<>>)]
            ELSE [err |-> NoError, val |-> Val("string", StrAt(b, i))]
      [] IsByteString(b[i]) -> [err |-> NoError, val |-> Val("string", StrAt(b, i))]
      [] b[i] = 244 -> [err |-> NoError, val |-> Val("bool", <<0>>)]
      [] b[i] = 245 -> [err |-> NoError, val |-> Val("bool", <<1>>)]
      [] IsNull(b[i]) -> [err |-> NoError, val |-> Val("nil", <<>>)]
      [] OTHER -> [err |-> Err("UnmarshalTypeError"), val |-> Val("nil", <<>>)]

\* a scalar item decoded into interface{}; unrecognized tags are skipped
ParseScalar(mode, b, i) == ScalarAt(mode, b, Untag(b, i))

\* the item at b[i], under no tag, decoded into a Go string: [err, set, val]
StringAt(mode, b, i) ==
    CASE IsTextString(b[i]) ->
            IF mode.UTF8 = "UTF8RejectInvalid" /\ ~Utf8Valid(StrAt(b, i))
            THEN [err |-> Err("SemanticError"), set |-> FALSE, val |-> <<>>]
            ELSE [err |-> NoError, set |-> TRUE, val |-> StrAt(b, i)]
      [] IsByteString(b[i]) -> [err |-> NoError, set |-> TRUE, val |-> StrAt(b, i)]
      [] IsNull(b[i]) -> [err |-> NoError, set |-> FALSE, val |-> <<>>]
      [] OTHER -> [err |-> Err("UnmarshalTypeError"), set |-> FALSE, val |-> <<>>]

\* an item decoded into a Go string (a map key or a string field)
ParseString(mode, b, i) == StringAt(mode, b, Untag(b, i))

FirstErr(e1, e2) == IF e1 = NoError THEN e2 ELSE e1

\* One pair decoded into a map[string]interface{}: k and v are the decoded key and
\* value, acc = [err, mv, j, stop] the result so far.  A key or value that fails to
\* decode is skipped and its error kept; a duplicate key ends the decode.
MapEntry(mode, acc, k, v) ==
    IF k.err # NoError THEN [acc EXCEPT !.err = FirstErr(@, k.err), !.j = @ + 1]
    ELSE IF ~k.set THEN [acc EXCEPT !.err = FirstErr(@, Err("UnmarshalTypeError")), !.j = @ + 1]
    ELSE IF v.err # NoError THEN [acc EXCEPT !.err = FirstErr(@, v.err), !.j = @ + 1]
    ELSE IF mode.DupMapKey = "DupMapKeyEnforcedAPF" /\ MapHas(acc.mv, k.val)
    THEN [acc EXCEPT !.err = ErrAt("DupMapKeyError", acc.j),
                     !.mv = MapPut(@, k.val, v.val),
                     !.stop = TRUE]
    ELSE [acc EXCEPT !.mv = MapPut(@, k.val, v.val), !.j = @ + 1]

\* the n remaining pairs of a map, from b[i], decoded into a map[string]interface{}
RECURSIVE MapEntries(_, _, _, _, _)
MapEntries(mode, b, i, n, acc) ==
    IF n = 0 \/ acc.stop THEN acc
    ELSE MapEntries(mode, b, SkipItems(mode, b, i, 2), n - 1,
                    MapEntry(mode, acc, ParseString(mode, b, i),
                             ParseScalar(mode, b, SkipItem(mode, b, i))))

\* the well-formed item at b[i], under no tag, decoded into a nil map: [err, mv]
MapAt(mode, b, i) ==
    CASE IsNull(b[i]) -> [err |-> NoError, mv |-> NilMap]
      [] IsMap(b[i]) ->
            [f \in {"err", "mv"} |->
                MapEntries(mode, b, i + 1, Arg(b[i]),
                           [err |-> NoError, mv |-> EmptyMap, j |-> 0, stop |-> FALSE])[f]]
      [] OTHER -> [err |-> Err("UnmarshalTypeError"), mv |-> NilMap]

\* mode.Unmarshal(b, &content) with content a nil map[string]interface{}: [err, mv]
UnmarshalMap(mode, b) ==
    IF WellFormed(mode, b) # NoError
    THEN [err |-> WellFormed(mode, b), mv |-> NilMap]
    ELSE MapAt(mode, b, Untag(b, 1))

(***************************************************************************)
(* Structs.  The structs of the model embed metav1.TypeMeta and have its    *)
(* two string fields, apiVersion and kind: a struct value is                *)
(* [apiVersion, kind].                                                      *)
(***************************************************************************)
FieldNames == {StrApiVersion, StrKind}
ZeroStruct == [apiVersion |-> <<>>, kind |-> <<>>]
SetField(st, name, v) ==
    IF name = StrApiVersion THEN [st EXCEPT !.apiVersion = v] ELSE [st EXCEPT !.kind = v]

\* One pair decoded into a struct: key is the text of the key (isText: the key
\* is a text string), v the value decoded as a string, acc = [err, st, j, seen,
\* unknown, stop] the result so far.  An unknown key ends a strict decode with an
\* UnknownFieldError, a key met twice ends any decode with a DupMapKeyError; a
\* value of the wrong type is skipped and its error kept.
StructEntry(mode, acc, isText, key, v) ==
    IF ~isText
    THEN [acc EXCEPT !.err = FirstErr(@, Err("UnmarshalTypeError")), !.j = @ + 1]
    ELSE IF key \notin FieldNames
    THEN IF "ExtraDecErrorUnknownField" \in mode.ExtraReturnErrors
         THEN [acc EXCEPT !.err = ErrAt("UnknownFieldError", acc.j), !.stop = TRUE]
         ELSE IF mode.DupMapKey = "DupMapKeyEnforcedAPF" /\ key \in acc.unknown
         THEN [acc EXCEPT !.err = ErrAt("DupMapKeyError", acc.j), !.stop = TRUE]
         ELSE [acc EXCEPT !.unknown = @ \cup {key}, !.j = @ + 1]
    ELSE IF mode.DupMapKey = "DupMapKeyEnforcedAPF" /\ key \in acc.seen
    THEN [acc EXCEPT !.err = ErrAt("DupMapKeyError", acc.j), !.stop = TRUE]
    ELSE [acc EXCEPT !.err = FirstErr(@, v.err),
                     !.st = IF v.set THEN SetField(@, key, v.val) ELSE @,
                     !.seen = @ \cup {key},
                     !.j = @ + 1]

\* the n remaining pairs of a map, from b[i], decoded into a struct
RECURSIVE StructEntries(_, _, _, _, _)
StructEntries(mode, b, i, n, acc) ==
    IF n = 0 \/ acc.stop THEN acc
    ELSE StructEntries(mode, b, SkipItems(mode, b, i, 2), n - 1,
                       StructEntry(mode, acc, IsTextString(b[Untag(b, i)]),
                                   StrAt(b, Untag(b, i)),
                                   ParseString(mode, b, SkipItem(mode, b, i))))

\* the well-formed item at b[i], under no tag, decoded into the struct st: [err, st]
StructAt(mode, b, i, st) ==
    CASE IsNull(b[i]) -> [err |-> NoError, st |-> st]
      [] IsMap(b[i]) ->
            [f \in {"err", "st"} |->
                StructEntries(mode, b, i + 1, Arg(b[i]),
                              [err |-> NoError, st |-> st, j |-> 0, seen |-> {},
                               unknown |-> {}, stop |-> FALSE])[f]]
      [] OTHER -> [err |-> Err("UnmarshalTypeError"), st |-> st]

\* mode.Unmarshal(b, &st) with st a struct: [err, st]
UnmarshalStruct(mode, b, st) ==
    IF WellFormed(mode, b) # NoError
    THEN [err |-> WellFormed(mode, b), st |-> st]
    ELSE StructAt(mode, b, Untag(b, 1), st)

(***************************************************************************)
(* schema.GroupVersionKind and the object kinds of apimachinery.           *)
(***************************************************************************)
GVK(g, v, k) == [Group |-> g, Version |-> v, Kind |-> k]
EmptyGVK == GVK(<<>>, <<>>, <<>>)

\* a *schema.GroupVersionKind: nil, or a pointer to v
NoGVK == [nil |-> TRUE, v |-> EmptyGVK]
Ptr(g) == [nil |-> FALSE, v |-> g]

\* strings.Count(str, "/") and strings.Index(str, "/")
SlashCount(str) == Cardinality({k \in 1..Len(str) : str[k] = 47})
SlashIndex(str) == CHOOSE k \in 1..Len(str) : str[k] = 47 /\ \A l \in 1..(k - 1) : str[l] # 47

\* schema.ParseGroupVersion: [err, Group, Version]
ParseGroupVersion(gv) ==
    IF Len(gv) = 0 \/ gv = StrSlash
    THEN [err |-> NoError, Group |-> <<>>, Version |-> <<>>]
    ELSE CASE SlashCount(gv) = 0 -> [err |-> NoError, Group |-> <<>>, Version |-> gv]
           [] SlashCount(gv) = 1 ->
                [err |-> NoError,
                 Group |-> Take(gv, SlashIndex(gv) - 1),
                 Version |-> Drop(gv, SlashIndex(gv))]
           [] OTHER -> [err |-> Err("ParseGroupVersionError"), Group |-> <<>>, Version |-> <<>>]

\* schema.FromAPIVersionAndKind, which metav1.TypeMeta.GroupVersionKind returns
GroupVersionWithKind(gv, kind) ==
    IF gv.err = NoError THEN GVK(gv.Group, gv.Version, kind) ELSE GVK(<<>>, <<>>, kind)

FromAPIVersionAndKind(apiVersion, kind) ==
    GroupVersionWithKind(ParseGroupVersion(apiVersion), kind)

\* unstructured.NestedString of a top-level key: "" unless the entry is a string
NestedString(mv, key) ==
    IF MapHas(mv, key) /\ mv.m[key].t = "string" THEN mv.m[key].v ELSE <<>>

\* (*unstructured.Unstructured).GroupVersionKind
GroupVersionOrEmpty(gv, kind) ==
    IF gv.err # NoError THEN EmptyGVK ELSE GVK(gv.Group, gv.Version, kind)

UnstructuredGVK(mv) ==
    GroupVersionOrEmpty(ParseGroupVersion(NestedString(mv, StrApiVersion)),
                        NestedString(mv, StrKind))

(***************************************************************************)
(* Objects.  An object is [type, Object, st]: type "Unstructured" holds the *)
(* content mapping Object, type "Typed" (a registered or unregistered       *)
(* struct embedding TypeMeta) holds the struct st.  NilObj is the nil       *)
(* runtime.Object; objects live in heap under the ids 1 (into) and 2 (the   *)
(* object the creater makes).                                               *)
(***************************************************************************)
NilObj == Nil
IntoId == "into"
NewId == "new"
ObjIds == {IntoId, NewId}

Unstructured(mv) == [type |-> "Unstructured", Object |-> mv, st |-> ZeroStruct]
Typed(st) == [type |-> "Typed", Object |-> NilMap, st |-> st]
NoObject == [type |-> "None", Object |-> NilMap, st |-> ZeroStruct]
EmptyHeap == [id \in ObjIds |-> NoObject]

IsUnstructured(o) == o.type = "Unstructured"

\* obj.GetObjectKind().GroupVersionKind()
ObjectGVK(o) ==
    IF IsUnstructured(o) THEN UnstructuredGVK(o.Object)
    ELSE FromAPIVersionAndKind(o.st.apiVersion, o.st.kind)

(***************************************************************************)
(* The serializer.                                                         *)
(***************************************************************************)
\* the three bytes of the self-described CBOR tag, "\xd9\xd9\xf7"
SelfDescribedTag == <<217, 217, 247>>

\* (*defaultMetaFactory).Interpret: [gvk, err]
Interpreted(tm) ==
    IF tm.err # NoError
    THEN [gvk |-> NoGVK, err |-> Wrap("unable to determine group/version/kind", tm.err)]
    ELSE [gvk |-> Ptr(FromAPIVersionAndKind(tm.st.apiVersion, tm.st.kind)), err |-> NoError]

Interpret(d) == Interpreted(UnmarshalStruct(DecodeLax, d, ZeroStruct))

\* gvkWithDefaults returns group kind and version defaulting from provided default
\* a variant that takes the default version whatever the group
gvkWithDefaultsAnyGroup(a, defaultGVK) ==
    [Group |-> IF Len(a.Version) = 0 /\ Len(a.Group) = 0 THEN defaultGVK.Group ELSE a.Group,
     Version |-> IF Len(a.Version) = 0 THEN defaultGVK.Version ELSE a.Version,
     Kind |-> IF Len(a.Kind) = 0 THEN defaultGVK.Kind ELSE a.Kind]

gvkWithDefaults(a, defaultGVK) ==
    LET a1 == IF Len(a.Kind) = 0 THEN [a EXCEPT !.Kind = defaultGVK.Kind] ELSE a
        a2 == IF Len(a1.Version) = 0 /\ Len(a1.Group) = 0
              THEN [a1 EXCEPT !.Group = defaultGVK.Group, !.Version = defaultGVK.Version]
              ELSE a1
        a3 == IF Len(a2.Version) = 0 /\ a2.Group = defaultGVK.Group
              THEN [a2 EXCEPT !.Version = defaultGVK.Version]
              ELSE a2
    IN a3

\* a variant that looks for the tag anywhere in the data
RecognizesDataAnywhere(d) ==
    [ok |-> \E k \in 0..Len(d) : HasPrefix(Drop(d, k), SelfDescribedTag),
     unknown |-> FALSE, err |-> NoError]

\* RecognizesData: (ok, unknown, err)
RecognizesData(d) ==
    [ok |-> HasPrefix(d, SelfDescribedTag), unknown |-> FALSE, err |-> NoError]

\* the destination of the decode passes of s.unmarshal on the object o:
\* [content, st]; an Unstructured decodes into the local content, a nil map
\* (into = &content), any other object into itself
Dest(o) == [content |-> NilMap, st |-> o.st]
IntoContent(dst, r) == [err |-> r.err, dst |-> [dst EXCEPT !.content = r.mv]]
IntoStruct(dst, r) == [err |-> r.err, dst |-> [dst EXCEPT !.st = r.st]]

\* one mode.Unmarshal(data, into): [err, dst]
UnmarshalInto(mode, d, isU, dst) ==
    IF isU THEN IntoContent(dst, UnmarshalMap(mode, d))
    ELSE IntoStruct(dst, UnmarshalStruct(mode, d, dst.st))

\* the object after the decode passes; for an Unstructured this is the deferred
\* u.SetUnstructuredContent(content)
Store(o, dst) ==
    IF IsUnstructured(o) THEN [o EXCEPT !.Object = dst.content] ELSE [o EXCEPT !.st = dst.st]

\* if !s.options.strict { return nil, modes.DecodeLax.Unmarshal(data, into) }
unmarshalLax(o, r) ==
    [strict |-> NoError, lax |-> r.err, o |-> Store(o, r.dst), runs |-> <<"DecodeLax">>]

\* return runtime.NewStrictDecodingError([]error{unknownField}), modes.DecodeLax.Unmarshal(data, into)
unmarshalAgain(o, r1, r2) ==
    [strict |-> Wrap("StrictDecodingError", r1.err), lax |-> r2.err,
     o |-> Store(o, r2.dst), runs |-> <<"Decode", "DecodeLax">>]

\* a variant without the lax pass: an unknown field is an error like any other
unmarshalStrictOnly(d, o, r1) ==
    [strict |-> NoError, lax |-> r1.err, o |-> Store(o, r1.dst), runs |-> <<"Decode">>]

\* a variant that runs the lax pass after any error of the strict pass
unmarshalStrictRetrying(d, o, r1) ==
    IF r1.err # NoError
    THEN unmarshalAgain(o, r1, UnmarshalInto(DecodeLax, d, IsUnstructured(o), r1.dst))
    ELSE [strict |-> NoError, lax |-> r1.err, o |-> Store(o, r1.dst), runs |-> <<"Decode">>]

\* err := modes.Decode.Unmarshal(data, into); if unknownField, ok := ...; return nil, err
unmarshalStrict(d, o, r1) ==
    IF r1.err.type = "UnknownFieldError"
    THEN unmarshalAgain(o, r1, UnmarshalInto(DecodeLax, d, IsUnstructured(o), r1.dst))
    ELSE [strict |-> NoError, lax |-> r1.err, o |-> Store(o, r1.dst), runs |-> <<"Decode">>]

\* a variant that takes every serializer for a strict one
unmarshalAlwaysStrict(ser, d, o) ==
    unmarshalStrict(d, o, UnmarshalInto(Decode, d, IsUnstructured(o), Dest(o)))

\* (*serializer).unmarshal(data, into) on the object o:
\* [strict, lax, o, runs], o the object afterwards, runs the modes run in order
unmarshal(ser, d, o) ==
    IF ~ser.strict
    THEN unmarshalLax(o, UnmarshalInto(DecodeLax, d, IsUnstructured(o), Dest(o)))
    ELSE unmarshalStrict(d, o, UnmarshalInto(Decode, d, IsUnstructured(o), Dest(o)))

(***************************************************************************)
(* The encode mode (internal/modes): definite lengths, Go strings as byte  *)
(* strings, map entries sorted length-first.                               *)
(***************************************************************************)
EncodeBytes(str) == <<64 + Len(str)>> \o str

EncodeVal(val) ==
    CASE val.t = "int64" -> val.v
      [] val.t = "string" \/ val.t = "[]byte" -> EncodeBytes(val.v)
      [] val.t = "bool" -> <<244 + val.v[1]>>
      [] OTHER -> <<246>>

\* the canonical order of two keys: shorter first, then bytewise
KeyLess(a, b) ==
    \/ Len(a) < Len(b)
    \/ /\ Len(a) = Len(b)
       /\ \E k \in 1..Len(a) : a[k] < b[k] /\ \A l \in 1..(k - 1) : a[l] = b[l]

RECURSIVE SortKeys(_)
SortKeys(S) ==
    IF S = {} THEN <<>>
    ELSE LET k == CHOOSE x \in S : \A y \in S \ {x} : KeyLess(x, y)
         IN <<k>> \o SortKeys(S \ {k})

RECURSIVE EncodeEntries(_, _)
EncodeEntries(m, keys) ==
    IF keys = <<>> THEN <<>>
    ELSE EncodeBytes(Head(keys)) \o EncodeVal(m[Head(keys)]) \o EncodeEntries(m, Tail(keys))

\* Encode.Marshal of a map[string]interface{}
EncodeMap(mv) ==
    IF mv.isNil THEN <<246>>
    ELSE <<160 + Cardinality(DOMAIN mv.m)>> \o EncodeEntries(mv.m, SortKeys(DOMAIN mv.m))

\* Encode.Marshal of a struct embedding TypeMeta (both fields omitempty)
EncodeStruct(st) ==
    LET mv == [isNil |-> FALSE,
               m |-> [k \in {f \in FieldNames :
                              (IF f = StrApiVersion THEN st.apiVersion ELSE st.kind) # <<>>}
                      |-> Val("string", IF k = StrApiVersion THEN st.apiVersion ELSE st.kind)]]
    IN EncodeMap(mv)

\* (*unstructured.Unstructured).UnstructuredContent: never a nil map
UnstructuredContent(o) == IF o.Object.isNil THEN EmptyMap ELSE o.Object

(***************************************************************************)
(* The io.Writer handed to Encode.  A Write either takes all of p, or fails *)
(* with an error after taking the first n bytes of p.                       *)
(***************************************************************************)
WriterErrors == {Err("io.ErrShortWrite"), Err("io.ErrClosedPipe")}
NewWriter == [out |-> <<>>, calls |-> 0, errs |-> <<>>]

WriteOutcomes(p) ==
    {[n |-> Len(p), err |-> NoError]} \cup
    {[n |-> n, err |-> e] : n \in 0..Len(p), e \in WriterErrors}

Write(wr, p, outcome) ==
    [out |-> wr.out \o Take(p, outcome.n), calls |-> wr.calls + 1,
     errs |-> Append(wr.errs, outcome.err)]

(***************************************************************************)
(* The inputs of the model.                                                *)
(***************************************************************************)
TextItem(str) == <<96 + Len(str)>> \o str

\* the map entries Decode is fed: a key and a value, encoded
Entries ==
    { TextItem(StrApiVersion) \o TextItem(StrV),
      TextItem(StrApiVersion) \o TextItem(StrGV),
      TextItem(StrApiVersion) \o <<1>>,
      TextItem(StrKind) \o TextItem(StrK),
      TextItem(StrZ) \o <<1>>,
      TextItem(StrZ) \o <<97, 128>> }

RECURSIVE Concat(_)
Concat(ss) == IF ss = <<>> THEN <<>> ELSE Head(ss) \o Concat(Tail(ss))

\* the definite maps of up to MaxPairs of these entries, duplicates included
MapInputs ==
    { <<160 + Len(es)>> \o Concat(es) :
        es \in UNION {[1..n -> Entries] : n \in 0..MaxPairs} }

\* empty input, null, an integer, a truncated map, trailing bytes, a bad initial
\* byte, and a map under the self-described tag
OtherInputs ==
    { <<>>, <<246>>, <<10>>, <<161>>, <<160, 1>>, <<255>>,
      SelfDescribedTag \o <<162>> \o TextItem(StrApiVersion) \o TextItem(StrV)
                       \o TextItem(StrKind) \o TextItem(StrK) }

DataInputs == MapInputs \cup OtherInputs

\* the default GVKs a caller of Decode passes
DefaultGVKs ==
    { NoGVK, Ptr(GVK(StrG, StrW, StrJ)), Ptr(GVK(<<>>, <<>>, StrJ)) }

\* the into arguments: none, an Unstructured (empty or already holding content),
\* a struct (zero or already populated)
IntoObjects ==
    { NoObject,
      Unstructured(NilMap),
      Unstructured(MapPut(EmptyMap, StrKind, Val("string", StrJ))),
      Typed(ZeroStruct),
      Typed([apiVersion |-> <<>>, kind |-> StrJ]) }

\* what a stub meta-factory returns
StubInterprets ==
    { [gvk |-> NoGVK, err |-> Err("test")],
      [gvk |-> Ptr(EmptyGVK), err |-> NoError],
      [gvk |-> Ptr(GVK(StrG, <<>>, StrK)), err |-> NoError] }

\* what the typer answers for into: an error, or the kinds into is registered under
NoTyper == [asked |-> FALSE, err |-> NoError, gvks |-> <<>>]
TyperAnswers ==
    { [asked |-> TRUE, err |-> Err("NotRegisteredError"), gvks |-> <<>>],
      [asked |-> TRUE, err |-> Err("test"), gvks |-> <<>>],
      [asked |-> TRUE, err |-> NoError, gvks |-> <<GVK(<<>>, StrV, StrK)>>],
      [asked |-> TRUE, err |-> NoError, gvks |-> <<GVK(StrG, StrW, StrJ), GVK(StrG, StrV, StrK)>>] }

\* what the creater answers: an error, or a new object
NoCreater == [asked |-> FALSE, o |-> NoObject, err |-> NoError]
CreaterAnswers ==
    { [o |-> NoObject, err |-> Err("test")],
      [o |-> Typed(ZeroStruct), err |-> NoError],
      [o |-> Unstructured(NilMap), err |-> NoError] }

\* the objects Encode is handed (NoObject is the nil runtime.Object)
EncodeObjects ==
    { NoObject,
      Unstructured(NilMap),
      Unstructured(MapPut(EmptyMap, StrKind, Val("string", StrK))),
      Unstructured(MapPut(MapPut(EmptyMap, StrKind, Val("string", StrK)),
                          StrApiVersion, Val("string", StrGV))),
      Typed(ZeroStruct),
      Typed([apiVersion |-> StrV, kind |-> StrK]),
      [type |-> "Marshaler", Object |-> NilMap, st |-> ZeroStruct] }

\* what the MarshalCBOR method of a cbor.Marshaler returns
MarshalerAnswers ==
    { [bytes |-> <<>>, err |-> Err("test")], [bytes |-> <<10>>, err |-> NoError] }

\* the serializers: NewSerializer / newSerializer with Strict(s) and a meta-factory
Serializers == [strict : BOOLEAN, metaFactory : {"default", "stub"}]

(***************************************************************************)
(* The state machine.  One caller invokes the serializer synchronously:    *)
(* an operation starts from "idle" and returns to it.                      *)
(***************************************************************************)
NoRet == [obj |-> NilObj, gvk |-> NoGVK, err |-> NoError]
NoRec == [ok |-> FALSE, unknown |-> FALSE, err |-> NoError]
Call(name, g) == [call |-> name, gvk |-> g]

EncIdle ==
    /\ encObj = NoObject
    /\ w = NewWriter
    /\ encRuns = 0
    /\ encRet = NoError

DecIdle ==
    /\ data = <<>>
    /\ gvk = NoGVK
    /\ into = NilObj
    /\ heap = EmptyHeap
    /\ heap0 = EmptyHeap
    /\ actual = NoGVK
    /\ obj = NilObj
    /\ typer = NoTyper
    /\ creater = NoCreater
    /\ log = <<>>
    /\ decRet = NoRet
    /\ recRet = NoRec

GvkIdle ==
    /\ gvkArgs = [actual |-> EmptyGVK, defaultGVK |-> NoGVK]
    /\ gvkRet = EmptyGVK

(***************************************************************************)
(* The union types of apiextensions/v1.  A JSONSchemaProps of the model has *)
(* one field, Type (json:"type,omitempty").  A *JSONSchemaProps is          *)
(* [nil, v]; a slice is [isNil, a].  A union value is one record for all    *)
(* four types, kind naming the Go type and the fields of the other types    *)
(* left at their zero values.                                               *)
(***************************************************************************)
JSONSchemaProps(type) == [Type |-> type]
ZeroSchema == JSONSchemaProps(<<>>)
NilSchema == [nil |-> TRUE, v |-> ZeroSchema]
SchemaPtr(sch) == [nil |-> FALSE, v |-> sch]
NilSlice == [isNil |-> TRUE, a |-> <<>>]
Slice(a) == [isNil |-> FALSE, a |-> a]

NoUnion ==
    [kind |-> "", Allows |-> FALSE, Schema |-> NilSchema, Property |-> NilSlice,
     JSONSchemas |-> NilSlice, Raw |-> <<>>]
JSONSchemaPropsOrBool(allows, schema) ==
    [NoUnion EXCEPT !.kind = "JSONSchemaPropsOrBool", !.Allows = allows, !.Schema = schema]
JSONSchemaPropsOrStringArray(schema, property) ==
    [NoUnion EXCEPT !.kind = "JSONSchemaPropsOrStringArray", !.Schema = schema, !.Property = property]
JSONSchemaPropsOrArray(schema, schemas) ==
    [NoUnion EXCEPT !.kind = "JSONSchemaPropsOrArray", !.Schema = schema, !.JSONSchemas = schemas]
JSON(raw) == [NoUnion EXCEPT !.kind = "JSON", !.Raw = raw]

\* what a Marshal returned, or the input handed to an Unmarshal
NoWire == [format |-> "", from |-> "", data |-> <<>>, err |-> NoError]

UnionIdle ==
    /\ unionVal = NoUnion
    /\ wire = NoWire
    /\ receiver0 = NoUnion
    /\ receiver = NoUnion
    /\ unmarshalErr = NoError

\* the arguments and the result of an Unmarshal of a decode mode, before any call
NoModeIn == [data |-> <<>>, isU |-> FALSE, dst |-> Dest(NoObject)]
NoModeRet == [err |-> NoError, dst |-> Dest(NoObject)]

ModesIdle ==
    /\ modeIn = NoModeIn
    /\ strictRet = NoModeRet
    /\ laxRet = NoModeRet

\* the goroutines that call the pooled serializers
MaxCallers == 2
Callers == 1..MaxCallers

\* the pools: encoderPool and decoderPool of the CBORSerializer, buffers of
\* the AvroSerializer
Pools == {"encoderPool", "decoderPool", "buffers"}

\* what a pooled item refers to: nothing, or the io.Writer or the data of the
\* call of goroutine c
NilRef == [kind |-> "nil", of |-> 0]
WriterOf(c) == [kind |-> "w", of |-> c]
DataOf(c) == [kind |-> "data", of |-> c]

\* a pooled item: an encoder or decoder with the writer or bytes it was last
\* reset to, or a byte slice with its bytes up to len
Item(pool, id, ref, buf) == [pool |-> pool, id |-> id, ref |-> ref, buf |-> buf]
NoItem == Item("", 0, NilRef, <<>>)

NoCall == [op |-> "idle", at |-> "idle", isU |-> FALSE, item |-> NoItem, wrote |-> NilRef, ret |-> NoError]

PoolIdle ==
    /\ pools = [p \in Pools |-> {}]
    /\ made = [p \in Pools |-> 0]
    /\ calls = [c \in Callers |-> NoCall]

\* func Skim(c net.Conn) *Skimmer: limit 64, an empty buffer, status 0
limit == 64
Skim == [limit |-> limit, buffer |-> <<>>, status |-> 0]

\* no Write and no Status() yet
NoWrite == [called |-> FALSE, was |-> Skim, p |-> <<>>, cn |-> 0, cerr |-> NoError]
NoConnCall == [p |-> <<>>, times |-> 0]
NoWriteRet == [n |-> 0, err |-> NoError, panic |-> FALSE]
NoStatusRet == [called |-> FALSE, pos |-> 0, code |-> 0, ok |-> FALSE]

SkimIdle ==
    /\ rs = Skim
    /\ stream = <<>>
    /\ pos = 0
    /\ lastWrite = NoWrite
    /\ connCall = NoConnCall
    /\ writeRet = NoWriteRet
    /\ statusRet = NoStatusRet

RestIdle ==
    /\ ModesIdle
    /\ PoolIdle
    /\ SkimIdle

\* newSerializer(metaFactory, creater, typer, options...)
Init ==
    /\ pc = "idle"
    /\ RestIdle
    /\ s \in Serializers
    /\ EncIdle
    /\ DecIdle
    /\ GvkIdle
    /\ UnionIdle

(***************************************************************************)
(* Encode(obj, w)                                                          *)
(***************************************************************************)
EncodeCall(o) ==
    /\ pc = "idle"
    /\ pc' = "enc_tag"
    /\ encObj' = o
    /\ w' = NewWriter
    /\ encRuns' = 0
    /\ encRet' = NoError
    /\ UNCHANGED <<s, decVars, recRet, gvkVars, unionVars, restVars>>

\* a variant that leaves the tag out
EncodeWithoutTag(outcome) ==
    /\ pc = "enc_tag"
    /\ pc' = "enc_payload"
    /\ UNCHANGED <<s, encVars, decVars, recRet, gvkVars, unionVars, restVars>>

\* a variant that carries on after a failed write of the tag
EncodeIgnoringTagError(outcome) ==
    /\ pc = "enc_tag"
    /\ w' = Write(w, SelfDescribedTag, outcome)
    /\ pc' = "enc_payload"
    /\ UNCHANGED <<s, encObj, encRuns, encRet, decVars, recRet, gvkVars, unionVars, restVars>>

\* if _, err := w.Write([]byte("\xd9\xd9\xf7")); err != nil { return err }
EncodeWriteTag(outcome) ==
    /\ pc = "enc_tag"
    /\ w' = Write(w, SelfDescribedTag, outcome)
    /\ IF outcome.err # NoError
       THEN /\ encRet' = outcome.err
            /\ pc' = "enc_done"
       ELSE /\ encRet' = encRet
            /\ pc' = "enc_payload"
    /\ UNCHANGED <<s, encObj, encRuns, decVars, recRet, gvkVars, unionVars, restVars>>

\* what the encoder marshals: the content of an Unstructured, else obj itself
Marshal(o, answer) ==
    CASE IsUnstructured(o) -> [bytes |-> EncodeMap(UnstructuredContent(o)), err |-> NoError]
      [] o.type = "Typed" -> [bytes |-> EncodeStruct(o.st), err |-> NoError]
      [] o.type = "Marshaler" -> answer
      [] OTHER -> [bytes |-> <<246>>, err |-> NoError]

\* e := modes.Encode.NewEncoder(w); return e.Encode(...)
Encoding(m, outcome) ==
    /\ outcome \in WriteOutcomes(m.bytes)
    /\ encRuns' = encRuns + 1
    /\ IF m.err # NoError
       THEN /\ w' = w
            /\ encRet' = m.err
       ELSE /\ w' = Write(w, m.bytes, outcome)
            /\ encRet' = outcome.err

EncodePayload(answer, outcome) ==
    /\ pc = "enc_payload"
    /\ Encoding(Marshal(encObj, answer), outcome)
    /\ pc' = "enc_done"
    /\ UNCHANGED <<s, encObj, decVars, recRet, gvkVars, unionVars, restVars>>

EncodeReturn ==
    /\ pc = "enc_done"
    /\ pc' = "idle"
    /\ encObj' = NoObject
    /\ w' = NewWriter
    /\ encRuns' = 0
    /\ encRet' = NoError
    /\ UNCHANGED <<s, decVars, recRet, gvkVars, unionVars, restVars>>

(***************************************************************************)
(* RecognizesData(data)                                                    *)
(***************************************************************************)
RecInputs == UNION {[1..n -> {217, 247, 255}] : n \in 0..MaxRecLen}

RecognizesCall(d) ==
    /\ pc = "idle"
    /\ pc' = "rec_done"
    /\ data' = d
    /\ recRet' = RecognizesData(d)
    /\ UNCHANGED <<s, encVars, gvk, into, heap, heap0, actual, obj, typer, creater, log, decRet, gvkVars, unionVars, restVars>>

RecognizesReturn ==
    /\ pc = "rec_done"
    /\ pc' = "idle"
    /\ data' = <<>>
    /\ recRet' = NoRec
    /\ UNCHANGED <<s, encVars, gvk, into, heap, heap0, actual, obj, typer, creater, log, decRet, gvkVars, unionVars, restVars>>

(***************************************************************************)
(* Decode(data, gvk, into)                                                 *)
(***************************************************************************)
\* return o, g, e
Return(o, g, e) ==
    /\ decRet' = [obj |-> o, gvk |-> g, err |-> e]
    /\ pc' = "dec_done"

DecodeCall(d, g, o) ==
    /\ pc = "idle"
    /\ pc' = "dec_interpret"
    /\ data' = d
    /\ gvk' = g
    /\ into' = IF o = NoObject THEN NilObj ELSE IntoId
    /\ heap' = [EmptyHeap EXCEPT ![IntoId] = o]
    /\ heap0' = [EmptyHeap EXCEPT ![IntoId] = o]
    /\ UNCHANGED <<s, encVars, actual, obj, typer, creater, log, decRet, recRet, gvkVars, unionVars, restVars>>

\* actual, err := s.metaFactory.Interpret(data); if err != nil { return nil, nil, err }
Interpreting(r) ==
    /\ log' = Append(log, Call("Interpret", r.gvk.v))
    /\ IF r.err # NoError
       THEN /\ Return(NilObj, NoGVK, r.err)
            /\ actual' = actual
       ELSE /\ actual' = r.gvk
            /\ pc' = "dec_default"
            /\ decRet' = decRet

DecodeInterpret(stub) ==
    /\ pc = "dec_interpret"
    /\ Interpreting(IF s.metaFactory = "default" THEN Interpret(data) ELSE stub)
    /\ UNCHANGED <<s, encVars, data, gvk, into, heap, heap0, obj, typer, creater, recRet, gvkVars, unionVars, restVars>>

\* if gvk != nil { *actual = gvkWithDefaults(*actual, *gvk) }
DecodeDefault ==
    /\ pc = "dec_default"
    /\ actual' = IF ~gvk.nil THEN Ptr(gvkWithDefaults(actual.v, gvk.v)) ELSE actual
    /\ pc' = "dec_into"
    /\ UNCHANGED <<s, encVars, data, gvk, into, heap, heap0, obj, typer, creater, log, decRet, recRet, gvkVars, unionVars, restVars>>

\* the log entries of the decode passes of one s.unmarshal
Runs(runs) == [k \in 1..Len(runs) |-> Call(runs[k], EmptyGVK)]

\* a variant that keeps the GVK of the meta-factory and the caller's default
IntoUnstructuredKeepingActual(g) ==
    /\ actual' = actual
    /\ IF Len(actual.v.Kind) = 0
       THEN Return(NilObj, actual, Err("MissingKind"))
       ELSE IF Len(actual.v.Version) = 0
       THEN Return(NilObj, actual, Err("MissingVersion"))
       ELSE Return(into, actual, NoError)

\* a variant that fills the object's GVK from the caller's default before the checks
IntoUnstructuredDefaulting(g) ==
    /\ actual' = (IF gvk.nil THEN g ELSE Ptr(gvkWithDefaults(g.v, gvk.v)))
    /\ IF Len(actual'.v.Kind) = 0
       THEN Return(NilObj, actual', Err("MissingKind"))
       ELSE IF Len(actual'.v.Version) = 0
       THEN Return(NilObj, actual', Err("MissingVersion"))
       ELSE Return(into, actual', NoError)

\* if into != nil { if _, ok := into.(runtime.Unstructured); ok { ... } }
\* *actual = into.GetObjectKind().GroupVersionKind(); if len(actual.Kind) == 0 ...
IntoUnstructuredKind(g) ==
    /\ actual' = g
    /\ IF Len(g.v.Kind) = 0
       THEN Return(NilObj, g, Err("MissingKind"))
       ELSE IF Len(g.v.Version) = 0
       THEN Return(NilObj, g, Err("MissingVersion"))
       ELSE Return(into, g, NoError)

\* if _, err := s.unmarshal(data, into); err != nil { return nil, actual, err }
IntoUnstructured(r) ==
    /\ heap' = [heap EXCEPT ![into] = r.o]
    /\ log' = log \o Runs(r.runs)
    /\ IF r.lax # NoError
       THEN /\ actual' = actual
            /\ Return(NilObj, actual, r.lax)
       ELSE IntoUnstructuredKind(Ptr(ObjectGVK(r.o)))

DecodeIntoUnstructured ==
    /\ pc = "dec_into"
    /\ into # NilObj
    /\ IsUnstructured(heap[into])
    /\ IntoUnstructured(unmarshal(s, data, heap[into]))
    /\ UNCHANGED <<s, encVars, data, gvk, into, heap0, obj, typer, creater, recRet, gvkVars, unionVars, restVars>>

\* a variant that goes on without the typer's kinds when the typer fails
DecodeIntoTypedLenient(answer) ==
    /\ pc = "dec_into"
    /\ into # NilObj
    /\ ~IsUnstructured(heap[into])
    /\ typer' = answer
    /\ log' = Append(log, Call("ObjectKinds", EmptyGVK))
    /\ actual' = (IF answer.err # NoError THEN actual
                  ELSE Ptr(gvkWithDefaults(actual.v, answer.gvks[1])))
    /\ pc' = "dec_check"
    /\ UNCHANGED <<s, encVars, data, gvk, into, heap, heap0, obj, creater, decRet, recRet, gvkVars, unionVars, restVars>>

\* a variant that defaults from the last of the kinds the typer lists
DecodeIntoTypedLastKind(answer) ==
    /\ pc = "dec_into"
    /\ into # NilObj
    /\ ~IsUnstructured(heap[into])
    /\ typer' = answer
    /\ log' = Append(log, Call("ObjectKinds", EmptyGVK))
    /\ IF answer.err # NoError
       THEN /\ Return(NilObj, actual, answer.err)
            /\ actual' = actual
       ELSE /\ actual' = Ptr(gvkWithDefaults(actual.v, answer.gvks[Len(answer.gvks)]))
            /\ pc' = "dec_check"
            /\ decRet' = decRet
    /\ UNCHANGED <<s, encVars, data, gvk, into, heap, heap0, obj, creater, recRet, gvkVars, unionVars, restVars>>

\* types, _, err := s.typer.ObjectKinds(into); ...; *actual = gvkWithDefaults(*actual, types[0])
DecodeIntoTyped(answer) ==
    /\ pc = "dec_into"
    /\ into # NilObj
    /\ ~IsUnstructured(heap[into])
    /\ typer' = answer
    /\ log' = Append(log, Call("ObjectKinds", EmptyGVK))
    /\ IF answer.err # NoError
       THEN /\ Return(NilObj, actual, answer.err)
            /\ actual' = actual
       ELSE /\ actual' = Ptr(gvkWithDefaults(actual.v, answer.gvks[1]))
            /\ pc' = "dec_check"
            /\ decRet' = decRet
    /\ UNCHANGED <<s, encVars, data, gvk, into, heap, heap0, obj, creater, recRet, gvkVars, unionVars, restVars>>

\* into == nil
DecodeNoInto ==
    /\ pc = "dec_into"
    /\ into = NilObj
    /\ pc' = "dec_check"
    /\ UNCHANGED <<s, encVars, decVars, recRet, gvkVars, unionVars, restVars>>

\* a variant that looks at the version first
DecodeCheckVersionFirst ==
    /\ pc = "dec_check"
    /\ IF Len(actual.v.Version) = 0
       THEN Return(NilObj, actual, Err("MissingVersion"))
       ELSE IF Len(actual.v.Kind) = 0
       THEN Return(NilObj, actual, Err("MissingKind"))
       ELSE /\ pc' = "dec_create"
            /\ decRet' = decRet
    /\ UNCHANGED <<s, encVars, data, gvk, into, heap, heap0, actual, obj, typer, creater, log, recRet, gvkVars, unionVars, restVars>>

\* if len(actual.Kind) == 0 { ... }; if len(actual.Version) == 0 { ... }
DecodeCheckGVK ==
    /\ pc = "dec_check"
    /\ IF Len(actual.v.Kind) = 0
       THEN Return(NilObj, actual, Err("MissingKind"))
       ELSE IF Len(actual.v.Version) = 0
       THEN Return(NilObj, actual, Err("MissingVersion"))
       ELSE /\ pc' = "dec_create"
            /\ decRet' = decRet
    /\ UNCHANGED <<s, encVars, data, gvk, into, heap, heap0, actual, obj, typer, creater, log, recRet, gvkVars, unionVars, restVars>>

\* runtime.UseOrCreateObject(t, c, gvk, obj): obj itself when the typer lists gvk
\* among its kinds, else what c.New(gvk) makes
UseInto == into # NilObj /\ \E k \in 1..Len(typer.gvks) : typer.gvks[k] = actual.v

\* a variant that goes on with an object of its own when the creater fails
DecodeUseOrCreateLenient(answer) ==
    /\ pc = "dec_create"
    /\ IF UseInto
       THEN /\ obj' = into
            /\ heap' = heap
            /\ heap0' = heap0
            /\ creater' = creater
            /\ log' = Append(log, Call("ObjectKinds", EmptyGVK))
            /\ pc' = "dec_unmarshal"
            /\ decRet' = decRet
       ELSE /\ log' = (IF into # NilObj THEN Append(log, Call("ObjectKinds", EmptyGVK)) ELSE log)
                      \o <<Call("New", actual.v)>>
            /\ creater' = [asked |-> TRUE, o |-> answer.o, err |-> answer.err]
            /\ IF answer.err # NoError
               THEN /\ obj' = NewId
                    /\ heap' = [heap EXCEPT ![NewId] = Typed(ZeroStruct)]
                    /\ heap0' = [heap0 EXCEPT ![NewId] = Typed(ZeroStruct)]
                    /\ pc' = "dec_unmarshal"
                    /\ decRet' = decRet
               ELSE /\ obj' = NewId
                    /\ heap' = [heap EXCEPT ![NewId] = answer.o]
                    /\ heap0' = [heap0 EXCEPT ![NewId] = answer.o]
                    /\ pc' = "dec_unmarshal"
                    /\ decRet' = decRet
    /\ UNCHANGED <<s, encVars, data, gvk, into, actual, typer, recRet, gvkVars, unionVars, restVars>>

\* obj, err := runtime.UseOrCreateObject(s.typer, s.creater, *actual, into)
DecodeUseOrCreate(answer) ==
    /\ pc = "dec_create"
    /\ IF UseInto
       THEN /\ obj' = into
            /\ heap' = heap
            /\ heap0' = heap0
            /\ creater' = creater
            /\ log' = Append(log, Call("ObjectKinds", EmptyGVK))
            /\ pc' = "dec_unmarshal"
            /\ decRet' = decRet
       ELSE /\ log' = (IF into # NilObj THEN Append(log, Call("ObjectKinds", EmptyGVK)) ELSE log)
                      \o <<Call("New", actual.v)>>
            /\ creater' = [asked |-> TRUE, o |-> answer.o, err |-> answer.err]
            /\ IF answer.err # NoError
               THEN /\ Return(NilObj, actual, answer.err)
                    /\ obj' = obj
                    /\ heap' = heap
                    /\ heap0' = heap0
               ELSE /\ obj' = NewId
                    /\ heap' = [heap EXCEPT ![NewId] = answer.o]
                    /\ heap0' = [heap0 EXCEPT ![NewId] = answer.o]
                    /\ pc' = "dec_unmarshal"
                    /\ decRet' = decRet
    /\ UNCHANGED <<s, encVars, data, gvk, into, actual, typer, recRet, gvkVars, unionVars, restVars>>

\* a variant that hands out the object along with a decode error
UnmarshalledKeepingObject(r) ==
    /\ heap' = [heap EXCEPT ![obj] = r.o]
    /\ log' = log \o Runs(r.runs)
    /\ Return(obj, actual, IF r.lax # NoError THEN r.lax ELSE r.strict)

\* strict, err := s.unmarshal(data, obj); if err != nil {...}; return obj, actual, strict
Unmarshalled(r) ==
    /\ heap' = [heap EXCEPT ![obj] = r.o]
    /\ log' = log \o Runs(r.runs)
    /\ IF r.lax # NoError
       THEN Return(NilObj, actual, r.lax)
       ELSE Return(obj, actual, r.strict)

DecodeUnmarshal ==
    /\ pc = "dec_unmarshal"
    /\ Unmarshalled(unmarshal(s, data, heap[obj]))
    /\ UNCHANGED <<s, encVars, data, gvk, into, heap0, actual, obj, typer, creater, recRet, gvkVars, unionVars, restVars>>

DecodeReturn ==
    /\ pc = "dec_done"
    /\ pc' = "idle"
    /\ data' = <<>>
    /\ gvk' = NoGVK
    /\ into' = NilObj
    /\ heap' = EmptyHeap
    /\ heap0' = EmptyHeap
    /\ actual' = NoGVK
    /\ obj' = NilObj
    /\ typer' = NoTyper
    /\ creater' = NoCreater
    /\ log' = <<>>
    /\ decRet' = NoRet
    /\ recRet' = NoRec
    /\ UNCHANGED <<s, encVars, gvkVars, unionVars, restVars>>

Next ==
    \/ \E o \in EncodeObjects : EncodeCall(o)
    \/ \E outcome \in WriteOutcomes(SelfDescribedTag) : EncodeWriteTag(outcome)
    \/ \E answer \in MarshalerAnswers :
          \E outcome \in WriteOutcomes(Marshal(encObj, answer).bytes) :
             EncodePayload(answer, outcome)
    \/ EncodeReturn
    \/ \E d \in RecInputs : RecognizesCall(d)
    \/ RecognizesReturn
    \/ \E d \in DataInputs, g \in DefaultGVKs, o \in IntoObjects : DecodeCall(d, g, o)
    \/ \E stub \in StubInterprets : DecodeInterpret(stub)
    \/ DecodeDefault
    \/ DecodeIntoUnstructured
    \/ \E answer \in TyperAnswers : DecodeIntoTyped(answer)
    \/ DecodeNoInto
    \/ DecodeCheckGVK
    \/ \E answer \in CreaterAnswers : DecodeUseOrCreate(answer)
    \/ DecodeUnmarshal
    \/ DecodeReturn

Spec == Init /\ [][Next]_vars

(***************************************************************************)
(* gvkWithDefaults on its own: the arguments are drawn at the start, and   *)
(* the one step is the defaulting step of Decode.                          *)
(***************************************************************************)
Groups == {<<>>, StrG, StrH}
Versions == {<<>>, StrV, StrW}
Kinds == {<<>>, StrK, StrJ}
GVKs == {GVK(g, v, k) : g \in Groups, v \in Versions, k \in Kinds}

InitGVK ==
    /\ pc = "gvk"
    /\ RestIdle
    /\ s = [strict |-> FALSE, metaFactory |-> "default"]
    /\ EncIdle
    /\ DecIdle
    /\ gvkArgs \in [actual : GVKs, defaultGVK : {NoGVK} \cup {Ptr(g) : g \in GVKs}]
    /\ gvkRet = EmptyGVK
    /\ UnionIdle

\* if gvk != nil { *actual = gvkWithDefaults(*actual, *gvk) }
GvkDefaulting ==
    /\ pc = "gvk"
    /\ gvkRet' = IF ~gvkArgs.defaultGVK.nil
                 THEN gvkWithDefaults(gvkArgs.actual, gvkArgs.defaultGVK.v)
                 ELSE gvkArgs.actual
    /\ pc' = "gvk_done"
    /\ UNCHANGED <<s, encVars, decVars, recRet, gvkArgs, unionVars, restVars>>

NextGVK == GvkDefaulting

SpecGVK == InitGVK /\ [][NextGVK]_vars

(***************************************************************************)
(* Decoded data items.  A data item, JSON or CBOR, is held as the sequence *)
(* of its tokens in wire order: a token is a [t, v] with t one of "nil",   *)
(* "bool", "int64", "string", "array", "map"; v holds the bytes of a       *)
(* string, <<0>> or <<1>> for a boolean, the number for an integer, and    *)
(* the count of elements or pairs for an array or a map, whose elements    *)
(* (keys and values in turn) are the tokens that follow.                   *)
(***************************************************************************)
NilTok == Val("nil", <<>>)
BoolTok(x) == Val("bool", IF x THEN <<1>> ELSE <<0>>)
StringTok(str) == Val("string", str)
ArrayTok(n) == Val("array", <<n>>)
MapTok(n) == Val("map", <<n>>)

\* the index after the item that starts at token i
RECURSIVE TokSkip(_, _), TokSkipN(_, _, _)
TokSkip(ts, i) ==
    CASE ts[i].t = "array" -> TokSkipN(ts, i + 1, ts[i].v[1])
      [] ts[i].t = "map" -> TokSkipN(ts, i + 1, 2 * ts[i].v[1])
      [] OTHER -> i + 1

TokSkipN(ts, i, n) == IF n = 0 THEN i ELSE TokSkipN(ts, TokSkip(ts, i), n - 1)

\* the tokens of the item that starts at token i
TokItem(ts, i) == SubSeq(ts, i, TokSkip(ts, i) - 1)

(***************************************************************************)
(* JSON texts (encoding/json).  The texts of the model hold the literals,  *)
(* non-negative integers, strings without escapes, arrays and objects,     *)
(* with spaces as the only white space.                                    *)
(***************************************************************************)
jsTrue == <<116, 114, 117, 101>>
jsFalse == <<102, 97, 108, 115, 101>>
nullLiteral == <<110, 117, 108, 108>>
StrType == <<116, 121, 112, 101>>
StrA == <<97>>
StrB == <<98>>
StrX == <<120>>

Quoted(str) == <<34>> \o str \o <<34>>

IsDigit(c) == c \in 48..57

\* b holds lit from position i on
HasLiteral(b, i, lit) == i + Len(lit) - 1 <= Len(b) /\ SubSeq(b, i, i + Len(lit) - 1) = lit

\* the first position from i on that holds no space
RECURSIVE JWs(_, _)
JWs(b, i) == IF i <= Len(b) /\ b[i] = 32 THEN JWs(b, i + 1) ELSE i

\* the first position from i on that holds no digit
RECURSIVE DigitsEnd(_, _)
DigitsEnd(b, i) == IF i <= Len(b) /\ IsDigit(b[i]) THEN DigitsEnd(b, i + 1) ELSE i

\* the number written by the digits b[i..j]
RECURSIVE NumVal(_, _, _)
NumVal(b, i, j) == IF j < i THEN 0 ELSE 10 * NumVal(b, i, j - 1) + (b[j] - 48)

JSONSyntaxError == [err |-> Err("json.SyntaxError"), ts |-> <<>>, j |-> 0]
JSONItem(ts, j) == [err |-> NoError, ts |-> ts, j |-> j]

\* the string whose opening quote is b[i]
JSONStringAt(b, i) ==
    IF \A k \in (i + 1)..Len(b) : b[k] # 34 THEN JSONSyntaxError
    ELSE LET k == CHOOSE x \in (i + 1)..Len(b) :
                      b[x] = 34 /\ \A y \in (i + 1)..(x - 1) : b[y] # 34
         IN IF \E y \in (i + 1)..(k - 1) : b[y] = 92 \/ b[y] < 32
            THEN JSONSyntaxError
            ELSE JSONItem(<<StringTok(SubSeq(b, i + 1, k - 1))>>, k + 1)

\* the number whose first digit is b[i]: no leading zero, no fraction, no exponent
JSONNumberAt(b, i, j) ==
    IF (b[i] = 48 /\ j > i + 1) \/ (j <= Len(b) /\ b[j] \in {46, 69, 101})
    THEN JSONSyntaxError
    ELSE JSONItem(<<Val("int64", <<NumVal(b, i, j - 1)>>)>>, j)

RECURSIVE JSONValueAt(_, _), JSONElems(_, _, _, _), JSONElemsAfter(_, _, _, _),
          JSONMembers(_, _, _, _), JSONMemberValue(_, _, _, _), JSONMembersAfter(_, _, _, _)
\* the value that starts at b[i]: [err, ts, j], j the position after it
JSONValueAt(b, i) ==
    IF i > Len(b) THEN JSONSyntaxError
    ELSE CASE b[i] = 34 -> JSONStringAt(b, i)
           [] IsDigit(b[i]) -> JSONNumberAt(b, i, DigitsEnd(b, i))
           [] HasLiteral(b, i, jsTrue) -> JSONItem(<<BoolTok(TRUE)>>, i + 4)
           [] HasLiteral(b, i, jsFalse) -> JSONItem(<<BoolTok(FALSE)>>, i + 5)
           [] HasLiteral(b, i, nullLiteral) -> JSONItem(<<NilTok>>, i + 4)
           [] b[i] = 91 ->
                IF JWs(b, i + 1) <= Len(b) /\ b[JWs(b, i + 1)] = 93
                THEN JSONItem(<<ArrayTok(0)>>, JWs(b, i + 1) + 1)
                ELSE JSONElems(b, JWs(b, i + 1), 0, <<>>)
           [] b[i] = 123 ->
                IF JWs(b, i + 1) <= Len(b) /\ b[JWs(b, i + 1)] = 125
                THEN JSONItem(<<MapTok(0)>>, JWs(b, i + 1) + 1)
                ELSE JSONMembers(b, JWs(b, i + 1), 0, <<>>)
           [] OTHER -> JSONSyntaxError

\* the elements of an array from b[i] on, n of them read into acc
JSONElems(b, i, n, acc) == JSONElemsAfter(b, n, acc, JSONValueAt(b, i))

JSONElemsAfter(b, n, acc, r) ==
    IF r.err # NoError \/ JWs(b, r.j) > Len(b) THEN JSONSyntaxError
    ELSE CASE b[JWs(b, r.j)] = 44 -> JSONElems(b, JWs(b, JWs(b, r.j) + 1), n + 1, acc \o r.ts)
           [] b[JWs(b, r.j)] = 93 -> JSONItem(<<ArrayTok(n + 1)>> \o acc \o r.ts, JWs(b, r.j) + 1)
           [] OTHER -> JSONSyntaxError

\* the members of an object from b[i] on, n of them read into acc
JSONMembers(b, i, n, acc) ==
    IF i > Len(b) \/ b[i] # 34 THEN JSONSyntaxError
    ELSE JSONMemberValue(b, n, acc, JSONStringAt(b, i))

JSONMemberValue(b, n, acc, k) ==
    IF k.err # NoError \/ JWs(b, k.j) > Len(b) \/ b[JWs(b, k.j)] # 58 THEN JSONSyntaxError
    ELSE JSONMembersAfter(b, n, acc \o k.ts, JSONValueAt(b, JWs(b, JWs(b, k.j) + 1)))

JSONMembersAfter(b, n, acc, r) ==
    IF r.err # NoError \/ JWs(b, r.j) > Len(b) THEN JSONSyntaxError
    ELSE CASE b[JWs(b, r.j)] = 44 -> JSONMembers(b, JWs(b, JWs(b, r.j) + 1), n + 1, acc \o r.ts)
           [] b[JWs(b, r.j)] = 125 -> JSONItem(<<MapTok(n + 1)>> \o acc \o r.ts, JWs(b, r.j) + 1)
           [] OTHER -> JSONSyntaxError

\* the one value of a JSON text: [err, ts]
JSONTokensOf(b, r) ==
    IF r.err # NoError \/ JWs(b, r.j) # Len(b) + 1
    THEN [err |-> Err("json.SyntaxError"), ts |-> <<>>]
    ELSE [err |-> NoError, ts |-> r.ts]

JSONTokens(b) == JSONTokensOf(b, JSONValueAt(b, JWs(b, 1)))

\* the decimal digits of n
RECURSIVE Digits(_)
Digits(n) == IF n < 10 THEN <<48 + n>> ELSE Digits(n \div 10) \o <<48 + (n % 10)>>

\* json.Marshal of the item at token i: compact, the members of an object in the
\* order of the tokens
RECURSIVE JSONTextAt(_, _), JSONTextElems(_, _, _), JSONTextMembers(_, _, _)
JSONTextAt(ts, i) ==
    CASE ts[i].t = "nil" -> nullLiteral
      [] ts[i].t = "bool" -> IF ts[i].v = <<1>> THEN jsTrue ELSE jsFalse
      [] ts[i].t = "int64" -> Digits(ts[i].v[1])
      [] ts[i].t = "string" -> Quoted(ts[i].v)
      [] ts[i].t = "array" -> <<91>> \o JSONTextElems(ts, i + 1, ts[i].v[1]) \o <<93>>
      [] ts[i].t = "map" -> <<123>> \o JSONTextMembers(ts, i + 1, ts[i].v[1]) \o <<125>>

JSONTextElems(ts, i, n) ==
    IF n = 0 THEN <<>>
    ELSE JSONTextAt(ts, i) \o (IF n > 1 THEN <<44>> ELSE <<>>)
            \o JSONTextElems(ts, TokSkip(ts, i), n - 1)

JSONTextMembers(ts, i, n) ==
    IF n = 0 THEN <<>>
    ELSE Quoted(ts[i].v) \o <<58>> \o JSONTextAt(ts, i + 1) \o (IF n > 1 THEN <<44>> ELSE <<>>)
            \o JSONTextMembers(ts, TokSkip(ts, i + 1), n - 1)

\* Encode.Marshal of the item at token i: definite lengths, strings as byte
\* strings, the entries of a map in the order of the tokens
RECURSIVE CborBytesAt(_, _), CborBytesN(_, _, _)
CborBytesAt(ts, i) ==
    CASE ts[i].t = "array" -> <<128 + ts[i].v[1]>> \o CborBytesN(ts, i + 1, ts[i].v[1])
      [] ts[i].t = "map" -> <<160 + ts[i].v[1]>> \o CborBytesN(ts, i + 1, 2 * ts[i].v[1])
      [] OTHER -> EncodeVal(ts[i])

CborBytesN(ts, i, n) ==
    IF n = 0 THEN <<>> ELSE CborBytesAt(ts, i) \o CborBytesN(ts, TokSkip(ts, i), n - 1)

\* the order of sort.Strings on two keys
BytesLess(a, b) ==
    \/ \E k \in 1..Min(Len(a), Len(b)) : a[k] < b[k] /\ \A l \in 1..(k - 1) : a[l] = b[l]
    \/ Len(a) < Len(b) /\ \A l \in 1..Len(a) : a[l] = b[l]

RECURSIVE SortStrings(_)
SortStrings(S) ==
    IF S = {} THEN <<>>
    ELSE LET k == CHOOSE x \in S : \A y \in S \ {x} : BytesLess(x, y)
         IN <<k>> \o SortStrings(S \ {k})

\* A Go map[string]interface{} held as tokens: each key once, with the value of its
\* last occurrence, the keys in the order of sort.Strings (lengthFirst = FALSE, as
\* json.Marshal writes them) or in the order of the encode mode (TRUE).
RECURSIVE SortItem(_, _, _), SortElems(_, _, _, _), SortPairs(_, _, _, _, _), EmitPairs(_, _)
SortItem(ts, i, lengthFirst) ==
    CASE ts[i].t = "array" -> <<ts[i]>> \o SortElems(ts, i + 1, ts[i].v[1], lengthFirst)
      [] ts[i].t = "map" -> SortPairs(ts, i + 1, ts[i].v[1], lengthFirst, <<>>)
      [] OTHER -> <<ts[i]>>

SortElems(ts, i, n, lengthFirst) ==
    IF n = 0 THEN <<>>
    ELSE SortItem(ts, i, lengthFirst) \o SortElems(ts, TokSkip(ts, i), n - 1, lengthFirst)

SortPairs(ts, i, n, lengthFirst, m) ==
    IF n = 0
    THEN <<MapTok(Cardinality(DOMAIN m))>>
            \o EmitPairs(m, IF lengthFirst THEN SortKeys(DOMAIN m) ELSE SortStrings(DOMAIN m))
    ELSE SortPairs(ts, TokSkip(ts, i + 1), n - 1, lengthFirst,
                   [x \in (DOMAIN m) \cup {ts[i].v} |->
                        IF x = ts[i].v THEN SortItem(ts, i + 1, lengthFirst) ELSE m[x]])

EmitPairs(m, keys) ==
    IF keys = <<>> THEN <<>>
    ELSE <<StringTok(Head(keys))>> \o m[Head(keys)] \o EmitPairs(m, Tail(keys))

\* the tokens of the well-formed CBOR item at b[i]: [err, ts]
RECURSIVE CborItemAt(_, _, _), CborItems(_, _, _, _, _)
CborItemAt(mode, b, i) ==
    CASE IsArray(b[i]) -> CborItems(mode, b, i + 1, Arg(b[i]), [err |-> NoError, ts |-> <<ArrayTok(Arg(b[i]))>>])
      [] IsMap(b[i]) -> CborItems(mode, b, i + 1, 2 * Arg(b[i]), [err |-> NoError, ts |-> <<MapTok(Arg(b[i]))>>])
      [] IsTag(b[i]) -> CborItemAt(mode, b, i + 3)
      [] OTHER -> [err |-> ScalarAt(mode, b, i).err, ts |-> <<ScalarAt(mode, b, i).val>>]

CborItems(mode, b, i, n, acc) ==
    IF n = 0 \/ acc.err # NoError THEN acc
    ELSE CborItems(mode, b, SkipItem(mode, b, i), n - 1,
                   [err |-> CborItemAt(mode, b, i).err, ts |-> acc.ts \o CborItemAt(mode, b, i).ts])

\* the tokens of a CBOR input, after the well-formedness pass: [err, ts]
CborTokens(mode, b) ==
    IF WellFormed(mode, b) # NoError
    THEN [err |-> WellFormed(mode, b), ts |-> <<>>]
    ELSE CborItemAt(mode, b, 1)

(***************************************************************************)
(* Values of the Go types to and from tokens, as encoding/json and the      *)
(* CBOR modes do it by reflection.                                          *)
(***************************************************************************)
\* how a decoder treats the keys of a map read into a struct
JSONRules == [dup |-> FALSE, unknown |-> FALSE]
CborRules(mode) ==
    [dup |-> mode.DupMapKey = "DupMapKeyEnforcedAPF",
     unknown |-> "ExtraDecErrorUnknownField" \in mode.ExtraReturnErrors]

TypeError(rules) ==
    IF rules = JSONRules THEN Err("json.UnmarshalTypeError") ELSE Err("UnmarshalTypeError")

\* a JSONSchemaProps: every field is omitempty
SchemaTokens(sch) ==
    IF sch.Type = <<>> THEN <<MapTok(0)>>
    ELSE <<MapTok(1), StringTok(StrType), StringTok(sch.Type)>>

\* a *JSONSchemaProps: a nil pointer is null
SchemaPtrTokens(p) == IF p.nil THEN <<NilTok>> ELSE SchemaTokens(p.v)

\* a []string: a nil slice is null
StringsTokens(sl) ==
    IF sl.isNil THEN <<NilTok>>
    ELSE <<ArrayTok(Len(sl.a))>> \o [k \in 1..Len(sl.a) |-> StringTok(sl.a[k])]

\* a []JSONSchemaProps
SchemasTokens(sl) ==
    IF sl.isNil THEN <<NilTok>>
    ELSE <<ArrayTok(Len(sl.a))>> \o Concat([k \in 1..Len(sl.a) |-> SchemaTokens(sl.a[k])])

\* the item at token i into a bool holding cur: [err, val]
ToBool(ts, i, rules, cur) ==
    CASE ts[i].t = "bool" -> [err |-> NoError, val |-> ts[i].v = <<1>>]
      [] ts[i].t = "nil" -> [err |-> NoError, val |-> cur]
      [] OTHER -> [err |-> TypeError(rules), val |-> cur]

\* One pair of a map read into a JSONSchemaProps: acc = [err, val, seen, stop].  A
\* value of the wrong type leaves the field alone and its error is kept; a
\* duplicate or unknown key ends the decode where the rules say so.
SchemaMember(rules, acc, k, v) ==
    IF k.t # "string" THEN [acc EXCEPT !.err = FirstErr(@, TypeError(rules))]
    ELSE IF rules.dup /\ k.v \in acc.seen
    THEN [acc EXCEPT !.err = Err("DupMapKeyError"), !.stop = TRUE]
    ELSE IF k.v # StrType
    THEN IF rules.unknown
         THEN [acc EXCEPT !.err = Err("UnknownFieldError"), !.stop = TRUE]
         ELSE [acc EXCEPT !.seen = @ \cup {k.v}]
    ELSE CASE v.t = "string" -> [acc EXCEPT !.val = JSONSchemaProps(v.v), !.seen = @ \cup {k.v}]
           [] v.t = "nil" -> [acc EXCEPT !.seen = @ \cup {k.v}]
           [] OTHER -> [acc EXCEPT !.err = FirstErr(@, TypeError(rules)), !.seen = @ \cup {k.v}]

RECURSIVE SchemaMembers(_, _, _, _, _)
SchemaMembers(ts, i, n, rules, acc) ==
    IF n = 0 \/ acc.stop THEN acc
    ELSE SchemaMembers(ts, TokSkip(ts, i + 1), n - 1, rules,
                       SchemaMember(rules, acc, ts[i], ts[i + 1]))

\* the item at token i into a zero JSONSchemaProps: [err, val]; null is a no-op
ToSchema(ts, i, rules) ==
    CASE ts[i].t = "map" ->
            [f \in {"err", "val"} |->
                SchemaMembers(ts, i + 1, ts[i].v[1], rules,
                              [err |-> NoError, val |-> ZeroSchema, seen |-> {}, stop |-> FALSE])[f]]
      [] ts[i].t = "nil" -> [err |-> NoError, val |-> ZeroSchema]
      [] OTHER -> [err |-> TypeError(rules), val |-> ZeroSchema]

\* the n elements from token i on into a []string
RECURSIVE StringElems(_, _, _, _, _)
StringElems(ts, i, n, rules, acc) ==
    IF n = 0 THEN acc
    ELSE StringElems(ts, TokSkip(ts, i), n - 1, rules,
            CASE ts[i].t = "string" -> [acc EXCEPT !.val = Slice(@.a \o <<ts[i].v>>)]
              [] ts[i].t = "nil" -> [acc EXCEPT !.val = Slice(@.a \o <<(<<>>)>>)]
              [] OTHER -> [acc EXCEPT !.err = FirstErr(@, TypeError(rules)),
                                      !.val = Slice(@.a \o <<(<<>>)>>)])

\* the item at token i into a nil []string: [err, val]
ToStrings(ts, i, rules) ==
    CASE ts[i].t = "array" ->
            StringElems(ts, i + 1, ts[i].v[1], rules, [err |-> NoError, val |-> Slice(<<>>)])
      [] ts[i].t = "nil" -> [err |-> NoError, val |-> NilSlice]
      [] OTHER -> [err |-> TypeError(rules), val |-> NilSlice]

\* the n elements from token i on into a []JSONSchemaProps
RECURSIVE SchemaElems(_, _, _, _, _)
SchemaElems(ts, i, n, rules, acc) ==
    IF n = 0 THEN acc
    ELSE SchemaElems(ts, TokSkip(ts, i), n - 1, rules,
            [err |-> FirstErr(acc.err, ToSchema(ts, i, rules).err),
             val |-> Slice(acc.val.a \o <<ToSchema(ts, i, rules).val>>)])

\* the item at token i into a nil []JSONSchemaProps: [err, val]
ToSchemas(ts, i, rules) ==
    CASE ts[i].t = "array" ->
            SchemaElems(ts, i + 1, ts[i].v[1], rules, [err |-> NoError, val |-> Slice(<<>>)])
      [] ts[i].t = "nil" -> [err |-> NoError, val |-> NilSlice]
      [] OTHER -> [err |-> TypeError(rules), val |-> NilSlice]

\* among the n pairs from token i on, a key that is no string (dup = FALSE) or a
\* key that came before (dup = TRUE)
RECURSIVE BadKeys(_, _, _, _, _)
BadKeys(ts, i, n, dup, seen) ==
    IF n = 0 THEN FALSE
    ELSE \/ (IF dup THEN ts[i].v \in seen ELSE ts[i].t # "string")
         \/ BadKeys(ts, TokSkip(ts, i + 1), n - 1, dup, seen \cup {ts[i].v})

\* some map of the tokens has such a key
AnyBadKeys(ts, dup) ==
    \E i \in 1..Len(ts) : ts[i].t = "map" /\ BadKeys(ts, i + 1, ts[i].v[1], dup, {})

\* the tokens into an interface{}: [err, val], val the Go value as tokens, the keys
\* of its maps sorted
ToAny(ts, rules) ==
    IF AnyBadKeys(ts, FALSE) THEN [err |-> TypeError(rules), val |-> <<NilTok>>]
    ELSE IF rules.dup /\ AnyBadKeys(ts, TRUE) THEN [err |-> Err("DupMapKeyError"), val |-> <<NilTok>>]
    ELSE [err |-> NoError, val |-> SortItem(ts, 1, FALSE)]

(***************************************************************************)
(* json.Marshal / json.Unmarshal and cbor.Marshal / cbor.Unmarshal (the     *)
(* direct package), by destination type.                                    *)
(***************************************************************************)
jsonMarshal(ts) == [data |-> JSONTextAt(ts, 1), err |-> NoError]
cborMarshal(ts) == [data |-> CborBytesAt(ts, 1), err |-> NoError]

jsonUnmarshalSchema(d) ==
    IF JSONTokens(d).err # NoError THEN [err |-> JSONTokens(d).err, val |-> ZeroSchema]
    ELSE ToSchema(JSONTokens(d).ts, 1, JSONRules)

jsonUnmarshalStrings(d) ==
    IF JSONTokens(d).err # NoError THEN [err |-> JSONTokens(d).err, val |-> NilSlice]
    ELSE ToStrings(JSONTokens(d).ts, 1, JSONRules)

jsonUnmarshalSchemas(d) ==
    IF JSONTokens(d).err # NoError THEN [err |-> JSONTokens(d).err, val |-> NilSlice]
    ELSE ToSchemas(JSONTokens(d).ts, 1, JSONRules)

jsonUnmarshalAny(d) ==
    IF JSONTokens(d).err # NoError THEN [err |-> JSONTokens(d).err, val |-> <<NilTok>>]
    ELSE ToAny(JSONTokens(d).ts, JSONRules)

cborUnmarshalBool(d) ==
    IF CborTokens(Decode, d).err # NoError THEN [err |-> CborTokens(Decode, d).err, val |-> FALSE]
    ELSE ToBool(CborTokens(Decode, d).ts, 1, CborRules(Decode), FALSE)

cborUnmarshalSchema(d) ==
    IF CborTokens(Decode, d).err # NoError THEN [err |-> CborTokens(Decode, d).err, val |-> ZeroSchema]
    ELSE ToSchema(CborTokens(Decode, d).ts, 1, CborRules(Decode))

cborUnmarshalStrings(d) ==
    IF CborTokens(Decode, d).err # NoError THEN [err |-> CborTokens(Decode, d).err, val |-> NilSlice]
    ELSE ToStrings(CborTokens(Decode, d).ts, 1, CborRules(Decode))

cborUnmarshalSchemas(d) ==
    IF CborTokens(Decode, d).err # NoError THEN [err |-> CborTokens(Decode, d).err, val |-> NilSlice]
    ELSE ToSchemas(CborTokens(Decode, d).ts, 1, CborRules(Decode))

cborUnmarshalAny(d) ==
    IF CborTokens(Decode, d).err # NoError THEN [err |-> CborTokens(Decode, d).err, val |-> <<NilTok>>]
    ELSE ToAny(CborTokens(Decode, d).ts, CborRules(Decode))

(***************************************************************************)
(* The methods of the union types.  A Marshal gives [data, err], an         *)
(* Unmarshal [err, val] with val the receiver after the call.               *)
(***************************************************************************)
cborNull == <<246>>

Bytes(d) == [data |-> d, err |-> NoError]
Replaced(u) == [err |-> NoError, val |-> u]
Failed(e, u) == [err |-> e, val |-> u]

\* func (s JSONSchemaPropsOrBool) MarshalJSON() ([]byte, error)
OrBoolMarshalJSON(u) ==
    IF ~u.Schema.nil THEN jsonMarshal(SchemaPtrTokens(u.Schema))
    ELSE IF u.Schema.nil /\ ~u.Allows THEN Bytes(jsFalse)
    ELSE Bytes(jsTrue)

\* a variant that leaves allows alone when it reads a schema
OrBoolUnmarshalJSONSchemaOnly(u, d) ==
    IF Len(d) = 0 THEN Replaced(JSONSchemaPropsOrBool(FALSE, NilSchema))
    ELSE IF d[1] = 123
    THEN IF jsonUnmarshalSchema(d).err # NoError
         THEN Failed(jsonUnmarshalSchema(d).err, u)
         ELSE Replaced(JSONSchemaPropsOrBool(FALSE, SchemaPtr(jsonUnmarshalSchema(d).val)))
    ELSE IF Len(d) = 4 /\ d = jsTrue THEN Replaced(JSONSchemaPropsOrBool(TRUE, NilSchema))
    ELSE IF Len(d) = 5 /\ d = jsFalse THEN Replaced(JSONSchemaPropsOrBool(FALSE, NilSchema))
    ELSE Failed(Err("boolean or JSON schema expected"), u)

\* func (s *JSONSchemaPropsOrBool) UnmarshalJSON(data []byte) error
OrBoolUnmarshalJSON(u, d) ==
    IF Len(d) = 0 THEN Replaced(JSONSchemaPropsOrBool(FALSE, NilSchema))
    ELSE IF d[1] = 123
    THEN IF jsonUnmarshalSchema(d).err # NoError
         THEN Failed(jsonUnmarshalSchema(d).err, u)
         ELSE Replaced(JSONSchemaPropsOrBool(TRUE, SchemaPtr(jsonUnmarshalSchema(d).val)))
    ELSE IF Len(d) = 4 /\ d = jsTrue THEN Replaced(JSONSchemaPropsOrBool(TRUE, NilSchema))
    ELSE IF Len(d) = 5 /\ d = jsFalse THEN Replaced(JSONSchemaPropsOrBool(FALSE, NilSchema))
    ELSE Failed(Err("boolean or JSON schema expected"), u)

\* func (s JSONSchemaPropsOrBool) MarshalCBOR() ([]byte, error)
OrBoolMarshalCBOR(u) ==
    IF ~u.Schema.nil THEN cborMarshal(SchemaPtrTokens(u.Schema))
    ELSE cborMarshal(<<BoolTok(u.Allows)>>)

\* func (s *JSONSchemaPropsOrBool) UnmarshalCBOR(data []byte) error
OrBoolUnmarshalCBOR(u, d) ==
    IF cborUnmarshalBool(d).err = NoError
    THEN Replaced(JSONSchemaPropsOrBool(cborUnmarshalBool(d).val, NilSchema))
    ELSE IF cborUnmarshalSchema(d).err # NoError
    THEN Failed(cborUnmarshalSchema(d).err, u)
    ELSE Replaced(JSONSchemaPropsOrBool(TRUE, SchemaPtr(cborUnmarshalSchema(d).val)))

\* func (s JSONSchemaPropsOrStringArray) MarshalJSON() ([]byte, error)
OrStringArrayMarshalJSON(u) ==
    IF Len(u.Property.a) > 0 THEN jsonMarshal(StringsTokens(u.Property))
    ELSE IF ~u.Schema.nil THEN jsonMarshal(SchemaPtrTokens(u.Schema))
    ELSE Bytes(nullLiteral)

\* var first byte; if len(data) > 1 { first = data[0] }
First(d) == IF Len(d) > 1 THEN d[1] ELSE 0

\* func (s *JSONSchemaPropsOrStringArray) UnmarshalJSON(data []byte) error
OrStringArrayUnmarshalJSON(u, d) ==
    IF First(d) = 123
    THEN IF jsonUnmarshalSchema(d).err # NoError
         THEN Failed(jsonUnmarshalSchema(d).err, u)
         ELSE Replaced(JSONSchemaPropsOrStringArray(SchemaPtr(jsonUnmarshalSchema(d).val), NilSlice))
    ELSE IF First(d) = 91
    THEN IF jsonUnmarshalStrings(d).err # NoError
         THEN Failed(jsonUnmarshalStrings(d).err, u)
         ELSE Replaced(JSONSchemaPropsOrStringArray(NilSchema, jsonUnmarshalStrings(d).val))
    ELSE Replaced(JSONSchemaPropsOrStringArray(NilSchema, NilSlice))

\* func (s JSONSchemaPropsOrStringArray) MarshalCBOR() ([]byte, error)
OrStringArrayMarshalCBOR(u) ==
    IF Len(u.Property.a) > 0 THEN cborMarshal(StringsTokens(u.Property))
    ELSE IF ~u.Schema.nil THEN cborMarshal(SchemaPtrTokens(u.Schema))
    ELSE cborMarshal(<<NilTok>>)

\* func (s *JSONSchemaPropsOrStringArray) UnmarshalCBOR(data []byte) error
OrStringArrayUnmarshalCBOR(u, d) ==
    IF cborUnmarshalStrings(d).err = NoError
    THEN Replaced(JSONSchemaPropsOrStringArray(NilSchema, cborUnmarshalStrings(d).val))
    ELSE IF cborUnmarshalSchema(d).err # NoError
    THEN Failed(cborUnmarshalSchema(d).err, u)
    ELSE Replaced(JSONSchemaPropsOrStringArray(SchemaPtr(cborUnmarshalSchema(d).val), NilSlice))

\* func (s JSONSchemaPropsOrArray) MarshalJSON() ([]byte, error)
OrArrayMarshalJSON(u) ==
    IF Len(u.JSONSchemas.a) > 0 THEN jsonMarshal(SchemasTokens(u.JSONSchemas))
    ELSE jsonMarshal(SchemaPtrTokens(u.Schema))

\* a variant that reads into the receiver as it is instead of into a new value
OrArrayUnmarshalJSONInPlace(u, d) ==
    IF First(d) = 123
    THEN IF jsonUnmarshalSchema(d).err # NoError
         THEN Failed(jsonUnmarshalSchema(d).err, u)
         ELSE Replaced([u EXCEPT !.Schema = SchemaPtr(jsonUnmarshalSchema(d).val)])
    ELSE IF First(d) = 91
    THEN IF jsonUnmarshalSchemas(d).err # NoError
         THEN Failed(jsonUnmarshalSchemas(d).err, u)
         ELSE Replaced([u EXCEPT !.JSONSchemas = jsonUnmarshalSchemas(d).val])
    ELSE Replaced(u)

\* func (s *JSONSchemaPropsOrArray) UnmarshalJSON(data []byte) error
OrArrayUnmarshalJSON(u, d) ==
    IF First(d) = 123
    THEN IF jsonUnmarshalSchema(d).err # NoError
         THEN Failed(jsonUnmarshalSchema(d).err, u)
         ELSE Replaced(JSONSchemaPropsOrArray(SchemaPtr(jsonUnmarshalSchema(d).val), NilSlice))
    ELSE IF First(d) = 91
    THEN IF jsonUnmarshalSchemas(d).err # NoError
         THEN Failed(jsonUnmarshalSchemas(d).err, u)
         ELSE Replaced(JSONSchemaPropsOrArray(NilSchema, jsonUnmarshalSchemas(d).val))
    ELSE Replaced(JSONSchemaPropsOrArray(NilSchema, NilSlice))

\* func (s JSONSchemaPropsOrArray) MarshalCBOR() ([]byte, error)
OrArrayMarshalCBOR(u) ==
    IF Len(u.JSONSchemas.a) > 0 THEN cborMarshal(SchemasTokens(u.JSONSchemas))
    ELSE cborMarshal(SchemaPtrTokens(u.Schema))

\* func (s *JSONSchemaPropsOrArray) UnmarshalCBOR(data []byte) error
OrArrayUnmarshalCBOR(u, d) ==
    IF cborUnmarshalSchema(d).err = NoError
    THEN Replaced(JSONSchemaPropsOrArray(SchemaPtr(cborUnmarshalSchema(d).val), NilSlice))
    ELSE IF cborUnmarshalSchemas(d).err # NoError
    THEN Failed(cborUnmarshalSchemas(d).err, u)
    ELSE Replaced(JSONSchemaPropsOrArray(NilSchema, cborUnmarshalSchemas(d).val))

\* func (s JSON) MarshalJSON() ([]byte, error)
JSONMarshalJSON(u) == IF Len(u.Raw) > 0 THEN Bytes(u.Raw) ELSE Bytes(nullLiteral)

\* func (s *JSON) UnmarshalJSON(data []byte) error
JSONUnmarshalJSON(u, d) ==
    IF Len(d) > 0 /\ d # nullLiteral THEN Replaced([u EXCEPT !.Raw = d]) ELSE Replaced(u)

\* a variant that does not look at the error of the parse
JSONMarshalCBORUnchecked(u) ==
    IF Len(u.Raw) = 0 THEN cborMarshal(<<NilTok>>)
    ELSE IF jsonUnmarshalAny(u.Raw).err # NoError
    THEN cborMarshal(<<NilTok>>)
    ELSE cborMarshal(SortItem(jsonUnmarshalAny(u.Raw).val, 1, TRUE))

\* func (s JSON) MarshalCBOR() ([]byte, error)
JSONMarshalCBOR(u) ==
    IF Len(u.Raw) = 0 THEN cborMarshal(<<NilTok>>)
    ELSE IF jsonUnmarshalAny(u.Raw).err # NoError
    THEN [data |-> <<>>, err |-> jsonUnmarshalAny(u.Raw).err]
    ELSE cborMarshal(SortItem(jsonUnmarshalAny(u.Raw).val, 1, TRUE))

\* a variant that empties the receiver on null
JSONUnmarshalCBORClearing(u, d) ==
    IF d = cborNull THEN Replaced([u EXCEPT !.Raw = <<>>])
    ELSE IF cborUnmarshalAny(d).err # NoError THEN Failed(cborUnmarshalAny(d).err, u)
    ELSE Replaced([u EXCEPT !.Raw = jsonMarshal(cborUnmarshalAny(d).val).data])

\* func (s *JSON) UnmarshalCBOR(data []byte) error
JSONUnmarshalCBOR(u, d) ==
    IF d = cborNull THEN Replaced(u)
    ELSE IF cborUnmarshalAny(d).err # NoError THEN Failed(cborUnmarshalAny(d).err, u)
    ELSE Replaced([u EXCEPT !.Raw = jsonMarshal(cborUnmarshalAny(d).val).data])

\* the method of u's type
MarshalUnion(format, u) ==
    CASE format = "json" /\ u.kind = "JSONSchemaPropsOrBool" -> OrBoolMarshalJSON(u)
      [] format = "cbor" /\ u.kind = "JSONSchemaPropsOrBool" -> OrBoolMarshalCBOR(u)
      [] format = "json" /\ u.kind = "JSONSchemaPropsOrStringArray" -> OrStringArrayMarshalJSON(u)
      [] format = "cbor" /\ u.kind = "JSONSchemaPropsOrStringArray" -> OrStringArrayMarshalCBOR(u)
      [] format = "json" /\ u.kind = "JSONSchemaPropsOrArray" -> OrArrayMarshalJSON(u)
      [] format = "cbor" /\ u.kind = "JSONSchemaPropsOrArray" -> OrArrayMarshalCBOR(u)
      [] format = "json" /\ u.kind = "JSON" -> JSONMarshalJSON(u)
      [] format = "cbor" /\ u.kind = "JSON" -> JSONMarshalCBOR(u)

UnmarshalUnion(format, u, d) ==
    CASE format = "json" /\ u.kind = "JSONSchemaPropsOrBool" -> OrBoolUnmarshalJSON(u, d)
      [] format = "cbor" /\ u.kind = "JSONSchemaPropsOrBool" -> OrBoolUnmarshalCBOR(u, d)
      [] format = "json" /\ u.kind = "JSONSchemaPropsOrStringArray" -> OrStringArrayUnmarshalJSON(u, d)
      [] format = "cbor" /\ u.kind = "JSONSchemaPropsOrStringArray" -> OrStringArrayUnmarshalCBOR(u, d)
      [] format = "json" /\ u.kind = "JSONSchemaPropsOrArray" -> OrArrayUnmarshalJSON(u, d)
      [] format = "cbor" /\ u.kind = "JSONSchemaPropsOrArray" -> OrArrayUnmarshalCBOR(u, d)
      [] format = "json" /\ u.kind = "JSON" -> JSONUnmarshalJSON(u, d)
      [] format = "cbor" /\ u.kind = "JSON" -> JSONUnmarshalCBOR(u, d)

(***************************************************************************)
(* The union codecs as a state machine: a value and a receiver of its type *)
(* are drawn at the start; the value is marshalled to JSON or to CBOR, or  *)
(* an input is taken instead, and the bytes are unmarshalled into the      *)
(* receiver.                                                               *)
(***************************************************************************)
MaxElems == 2

Seqs(S, n) == UNION {[1..k -> S] : k \in 0..n}

Schemas == {ZeroSchema, JSONSchemaProps(StrA)}
SchemaPtrs == {NilSchema} \cup {SchemaPtr(sch) : sch \in Schemas}
StringSlices == {NilSlice} \cup {Slice(a) : a \in Seqs({<<>>, StrA, StrB}, MaxElems)}
SchemaSlices == {NilSlice} \cup {Slice(a) : a \in Seqs(Schemas, MaxElems)}

JMember(k, v) == Quoted(k) \o <<58>> \o v
JObject(members) == <<123>> \o members \o <<125>>
JArray(elems) == <<91>> \o elems \o <<93>>

\* JSON texts: the literals, a number, a string, arrays, objects (keys to be
\* sorted, a key twice, a nested array), white space, and texts that are no JSON
JSONTexts ==
    { nullLiteral, jsTrue, jsFalse, <<49>>, Quoted(StrA),
      JArray(<<>>), JArray(<<49, 44>> \o Quoted(StrA)),
      JObject(<<>>), JObject(JMember(StrX, <<49>>)),
      JObject(JMember(StrType, Quoted(StrA))),
      JObject(JMember(StrType, <<49>>)),
      JObject(JMember(<<97, 97>>, <<49>>) \o <<44>> \o JMember(StrB, JArray(jsTrue))),
      JObject(JMember(StrX, <<49>>) \o <<44>> \o JMember(StrX, <<50>>)),
      <<32>> \o jsTrue, <<32, 49, 32>>, <<32>> \o nullLiteral,
      JArray(Quoted(StrA) \o <<44>> \o Quoted(StrB)),
      JArray(JObject(<<>>)),
      <<123>>, <<91>>, StrX, <<116, 114, 117>>, <<49, 50, 32, 51>> }

\* CBOR inputs: null, the booleans, a number, strings, arrays, maps, and inputs
\* that are not well-formed
CBORInputs ==
    { cborNull, <<244>>, <<245>>, <<1>>, TextItem(StrA), EncodeBytes(StrA),
      <<128>>, <<129>> \o TextItem(StrA), <<129, 160>>, <<130, 1>> \o EncodeBytes(StrA),
      <<160>>, <<161>> \o TextItem(StrType) \o TextItem(StrA),
      <<161>> \o TextItem(StrX) \o <<1>>,
      <<162>> \o TextItem(StrX) \o <<1>> \o TextItem(StrX) \o <<2>>,
      <<161>> \o TextItem(StrX) \o <<129, 245>>,
      <<>>, <<255>>, <<161>> }

UnionValues ==
    {JSONSchemaPropsOrBool(a, p) : a \in BOOLEAN, p \in SchemaPtrs}
    \cup {JSONSchemaPropsOrStringArray(p, sl) : p \in SchemaPtrs, sl \in StringSlices}
    \cup {JSONSchemaPropsOrArray(p, sl) : p \in SchemaPtrs, sl \in SchemaSlices}
    \cup {JSON(raw) : raw \in JSONTexts \cup {<<>>}}

\* the receivers of an Unmarshal: the zero value of the type and a value with
\* every field set
Receivers(kind) ==
    CASE kind = "JSONSchemaPropsOrBool" ->
            {JSONSchemaPropsOrBool(FALSE, NilSchema), JSONSchemaPropsOrBool(TRUE, SchemaPtr(JSONSchemaProps(StrB)))}
      [] kind = "JSONSchemaPropsOrStringArray" ->
            {JSONSchemaPropsOrStringArray(NilSchema, NilSlice),
             JSONSchemaPropsOrStringArray(SchemaPtr(JSONSchemaProps(StrB)), Slice(<<StrX>>))}
      [] kind = "JSONSchemaPropsOrArray" ->
            {JSONSchemaPropsOrArray(NilSchema, NilSlice),
             JSONSchemaPropsOrArray(SchemaPtr(JSONSchemaProps(StrB)), Slice(<<JSONSchemaProps(StrB)>>))}
      [] kind = "JSON" -> {JSON(<<>>), JSON(Quoted(StrB))}

InitUnion ==
    /\ pc = "union"
    /\ RestIdle
    /\ s = [strict |-> FALSE, metaFactory |-> "default"]
    /\ EncIdle
    /\ DecIdle
    /\ GvkIdle
    /\ unionVal \in UnionValues
    /\ receiver0 \in Receivers(unionVal.kind)
    /\ receiver = receiver0
    /\ wire = NoWire
    /\ unmarshalErr = NoError

\* data, err := v.MarshalJSON() or v.MarshalCBOR()
UnionMarshal(format) ==
    /\ pc = "union"
    /\ wire' = [format |-> format, from |-> "Marshal",
                data |-> MarshalUnion(format, unionVal).data, err |-> MarshalUnion(format, unionVal).err]
    /\ pc' = "union_wire"
    /\ UNCHANGED <<s, encVars, decVars, recRet, gvkVars, unionVal, receiver0, receiver, unmarshalErr, restVars>>

\* bytes from elsewhere
UnionInput(format, d) ==
    /\ pc = "union"
    /\ wire' = [format |-> format, from |-> "input", data |-> d, err |-> NoError]
    /\ pc' = "union_wire"
    /\ UNCHANGED <<s, encVars, decVars, recRet, gvkVars, unionVal, receiver0, receiver, unmarshalErr, restVars>>

\* err := r.UnmarshalJSON(data) or r.UnmarshalCBOR(data)
UnionUnmarshal ==
    /\ pc = "union_wire"
    /\ wire.err = NoError
    /\ receiver' = UnmarshalUnion(wire.format, receiver, wire.data).val
    /\ unmarshalErr' = UnmarshalUnion(wire.format, receiver, wire.data).err
    /\ pc' = "union_done"
    /\ UNCHANGED <<s, encVars, decVars, recRet, gvkVars, unionVal, wire, receiver0, restVars>>

NextUnion ==
    \/ \E format \in {"json", "cbor"} : UnionMarshal(format)
    \/ \E d \in JSONTexts \cup {<<>>} : UnionInput("json", d)
    \/ \E d \in CBORInputs : UnionInput("cbor", d)
    \/ UnionUnmarshal

SpecUnion == InitUnion /\ [][NextUnion]_vars

(***************************************************************************)
(* The two decode modes side by side, as TestDecode runs them: the input   *)
(* and a destination are drawn at the start, and each mode unmarshals the  *)
(* input into a destination of its own.                                    *)
(***************************************************************************)
\* the destinations: the nil map an Unstructured is decoded into, and the
\* structs of the model
Destinations ==
    {[isU |-> IsUnstructured(o), dst |-> Dest(o)] : o \in IntoObjects \ {NoObject}}

InitModes ==
    /\ pc = "modes"
    /\ s = [strict |-> FALSE, metaFactory |-> "default"]
    /\ EncIdle
    /\ DecIdle
    /\ GvkIdle
    /\ UnionIdle
    /\ PoolIdle
    /\ SkimIdle
    /\ modeIn \in {[data |-> d, isU |-> x.isU, dst |-> x.dst] : d \in DataInputs, x \in Destinations}
    /\ strictRet = NoModeRet
    /\ laxRet = NoModeRet

\* err := modes.Decode.Unmarshal(data, into)
ModesStrict ==
    /\ pc = "modes"
    /\ strictRet' = UnmarshalInto(Decode, modeIn.data, modeIn.isU, modeIn.dst)
    /\ pc' = "modes_strict"
    /\ UNCHANGED <<s, encVars, decVars, recRet, gvkVars, unionVars, modeIn, laxRet, poolVars, skimVars>>

\* err := modes.DecodeLax.Unmarshal(data, into)
ModesLax ==
    /\ pc = "modes_strict"
    /\ laxRet' = UnmarshalInto(DecodeLax, modeIn.data, modeIn.isU, modeIn.dst)
    /\ pc' = "modes_done"
    /\ UNCHANGED <<s, encVars, decVars, recRet, gvkVars, unionVars, modeIn, strictRet, poolVars, skimVars>>

NextModes ==
    \/ ModesStrict
    \/ ModesLax

SpecModes == InitModes /\ [][NextModes]_vars

(***************************************************************************)
(* The pooled serializers: CBORSerializer keeps its encoders and decoders  *)
(* in two sync.Pools, AvroSerializer its buffers in one.  Goroutines call   *)
(* Encode and Decode concurrently; every statement that touches a pool or   *)
(* an item is a step.  A sync.Pool hands out one of its items or the result *)
(* of New, and an item it has handed out is no longer in it.                *)
(***************************************************************************)
\* the pool an operation uses
PoolOf(op) ==
    CASE op = "CBOREncode" -> "encoderPool"
      [] op = "CBORDecode" -> "decoderPool"
      [] OTHER -> "buffers"

\* the writer or the data of the call of goroutine c
ArgOf(op, c) == IF op = "CBORDecode" THEN DataOf(c) ELSE WriterOf(c)

\* New of the pool: codec.NewEncoder(nil, &hnd), codec.NewDecoder(nil, &hnd),
\* make([]byte, 0, 256)
PoolNew(pool, id) == Item(pool, id, NilRef, <<>>)

\* the bytes goavro appends to buf for the content of an object
AvroOutputs == {<<2>>, <<2, 4>>}

InitPool ==
    /\ pc = "pool"
    /\ s = [strict |-> FALSE, metaFactory |-> "default"]
    /\ EncIdle
    /\ DecIdle
    /\ GvkIdle
    /\ UnionIdle
    /\ ModesIdle
    /\ PoolIdle
    /\ SkimIdle

\* a goroutine calls s.Encode(obj, w) or s.Decode(data, defaults, into)
PoolCall(c, op, isU) ==
    /\ pc = "pool"
    /\ calls[c].at = "idle"
    /\ calls' = [calls EXCEPT ![c] = [NoCall EXCEPT !.op = op, !.at = "check", !.isU = isU]]
    /\ UNCHANGED <<pc, s, encVars, decVars, recRet, gvkVars, unionVars, modeVars, skimVars, pools, made>>

\* u, ok := obj.(runtime.Unstructured); if !ok { return fmt.Errorf(...) }
PoolCheck(c) ==
    /\ pc = "pool"
    /\ calls[c].at = "check"
    /\ calls' = [calls EXCEPT ![c] =
                    IF calls[c].op = "CBOREncode" /\ ~calls[c].isU
                    THEN [@ EXCEPT !.at = "done", !.ret = Err("does not implement runtime.Unstructured")]
                    ELSE [@ EXCEPT !.at = "get"]]
    /\ UNCHANGED <<pc, s, encVars, decVars, recRet, gvkVars, unionVars, modeVars, skimVars, pools, made>>

\* enc := s.encoderPool.Get().(*codec.Encoder), with an item of the pool
PoolGet(c) ==
    /\ pc = "pool"
    /\ calls[c].at = "get"
    /\ \E item \in pools[PoolOf(calls[c].op)] :
          /\ pools' = [pools EXCEPT ![item.pool] = @ \ {item}]
          /\ calls' = [calls EXCEPT ![c] = [@ EXCEPT !.item = item,
                                                    !.at = IF item.pool = "buffers" THEN "use" ELSE "reset"]]
    /\ UNCHANGED <<pc, s, encVars, decVars, recRet, gvkVars, unionVars, modeVars, skimVars, made>>

\* the same, the pool calling New
PoolGetNew(c) ==
    /\ pc = "pool"
    /\ calls[c].at = "get"
    /\ made[PoolOf(calls[c].op)] < MaxCallers
    /\ made' = [made EXCEPT ![PoolOf(calls[c].op)] = @ + 1]
    /\ calls' = [calls EXCEPT ![c] =
                    [@ EXCEPT !.item = PoolNew(PoolOf(calls[c].op), made[PoolOf(calls[c].op)] + 1),
                              !.at = IF calls[c].op = "AvroEncode" THEN "use" ELSE "reset"]]
    /\ UNCHANGED <<pc, s, encVars, decVars, recRet, gvkVars, unionVars, modeVars, skimVars, pools>>

\* enc.Reset(w) / dec.ResetBytes(data)
PoolReset(c) ==
    /\ pc = "pool"
    /\ calls[c].at = "reset"
    /\ calls' = [calls EXCEPT ![c] = [@ EXCEPT !.item.ref = ArgOf(calls[c].op, c), !.at = "use"]]
    /\ UNCHANGED <<pc, s, encVars, decVars, recRet, gvkVars, unionVars, modeVars, skimVars, pools, made>>

\* enc.Encode(u.UnstructuredContent()) / dec.Decode(&u.Object): the item writes to
\* or reads from what it refers to
PoolUseCBOR(c, err) ==
    /\ pc = "pool"
    /\ calls[c].at = "use"
    /\ calls[c].op \in {"CBOREncode", "CBORDecode"}
    /\ calls' = [calls EXCEPT ![c] = [@ EXCEPT !.wrote = calls[c].item.ref, !.ret = err, !.at = "put"]]
    /\ UNCHANGED <<pc, s, encVars, decVars, recRet, gvkVars, unionVars, modeVars, skimVars, pools, made>>

\* buf, err = s.codec.BinaryFromNative(buf, ...); if err != nil { return err };
\* _, err = io.Copy(w, bytes.NewReader(buf)); return err
PoolUseAvro(c, out, err) ==
    /\ pc = "pool"
    /\ calls[c].at = "use"
    /\ calls[c].op = "AvroEncode"
    /\ calls' = [calls EXCEPT ![c] =
                    [@ EXCEPT !.item.buf = calls[c].item.buf \o out,
                              !.wrote = IF out = <<>> THEN NilRef ELSE WriterOf(c),
                              !.ret = err, !.at = "put"]]
    /\ UNCHANGED <<pc, s, encVars, decVars, recRet, gvkVars, unionVars, modeVars, skimVars, pools, made>>

\* defer s.encoderPool.Put(enc) / defer s.decoderPool.Put(dec) /
\* defer func() { s.buffers.Put(buf[:0]) }()
PoolPut(c) ==
    /\ pc = "pool"
    /\ calls[c].at = "put"
    /\ pools' = [pools EXCEPT ![calls[c].item.pool] =
                    @ \cup {IF calls[c].item.pool = "buffers"
                            THEN [calls[c].item EXCEPT !.buf = <<>>]
                            ELSE calls[c].item}]
    /\ calls' = [calls EXCEPT ![c] = [@ EXCEPT !.item = NoItem, !.at = "done"]]
    /\ UNCHANGED <<pc, s, encVars, decVars, recRet, gvkVars, unionVars, modeVars, skimVars, made>>

\* the call returns
PoolReturn(c) ==
    /\ pc = "pool"
    /\ calls[c].at = "done"
    /\ calls' = [calls EXCEPT ![c] = NoCall]
    /\ UNCHANGED <<pc, s, encVars, decVars, recRet, gvkVars, unionVars, modeVars, skimVars, pools, made>>

NextPool ==
    \/ \E c \in Callers, op \in {"CBOREncode", "CBORDecode", "AvroEncode"}, isU \in BOOLEAN :
          PoolCall(c, op, op # "CBOREncode" \/ isU)
    \/ \E c \in Callers : PoolCheck(c)
    \/ \E c \in Callers : PoolGet(c)
    \/ \E c \in Callers : PoolGetNew(c)
    \/ \E c \in Callers : PoolReset(c)
    \/ \E c \in Callers, err \in {NoError, Err("test")} : PoolUseCBOR(c, err)
    \/ \E c \in Callers : PoolUseAvro(c, <<>>, Err("test"))
    \/ \E c \in Callers, out \in AvroOutputs, err \in {NoError, Err("io.ErrShortWrite")} :
          PoolUseAvro(c, out, err)
    \/ \E c \in Callers : PoolPut(c)
    \/ \E c \in Callers : PoolReturn(c)

SpecPool == InitPool /\ [][NextPool]_vars

(***************************************************************************)
(* The Skimmer (package responsewriter): a net.Conn wrapper that reads the *)
(* status code off the first line written through it.  Write and Status    *)
(* hold rs.lock from start to end, so each call is one step, whichever      *)
(* goroutine makes it.  The callers write a stream in chunks; the           *)
(* connection takes all of a chunk, or part of it with an error.            *)
(***************************************************************************)
\* bytes.IndexByte(p, c): the index from 0 of the first c in p, or -1
IndexByte(p, c) ==
    IF \E k \in 1..Len(p) : p[k] = c
    THEN (CHOOSE k \in 1..Len(p) : p[k] = c /\ \A j \in 1..(k - 1) : p[j] # c) - 1
    ELSE -1

\* bytes.Cut(sq, []byte{c}) by the index of c: (before, after, found)
CutAt(sq, i) ==
    IF i < 0 THEN [before |-> sq, after |-> <<>>, found |-> FALSE]
    ELSE [before |-> Take(sq, i), after |-> Drop(sq, i + 1), found |-> TRUE]

Cut(sq, c) == CutAt(sq, IndexByte(sq, c))

\* bytes.TrimLeft(sq, " ")
RECURSIVE TrimLeft(_, _)
TrimLeft(sq, c) == IF Len(sq) > 0 /\ sq[1] = c THEN TrimLeft(Tail(sq), c) ELSE sq

\* the number a string of decimal digits denotes
RECURSIVE DigitsValue(_)
DigitsValue(sq) ==
    IF sq = <<>> THEN 0 ELSE 10 * DigitsValue(Take(sq, Len(sq) - 1)) + (sq[Len(sq)] - 48)

\* strconv.Atoi: an optional sign and one or more decimal digits; (n, err)
AtoiDigits(neg, digits) ==
    IF digits = <<>> \/ \E k \in 1..Len(digits) : digits[k] \notin 48..57
    THEN [n |-> 0, err |-> Err("strconv.ErrSyntax")]
    ELSE [n |-> IF neg THEN 0 - DigitsValue(digits) ELSE DigitsValue(digits), err |-> NoError]

Atoi(sq) ==
    IF sq = <<>> THEN [n |-> 0, err |-> Err("strconv.ErrSyntax")]
    ELSE IF sq[1] \in {43, 45} THEN AtoiDigits(sq[1] = 45, Tail(sq))
    ELSE AtoiDigits(FALSE, sq)

\* func (rs *Skimmer) Status() (int, bool)
SkimmerStatus(r) ==
    IF r.status < 0 THEN [code |-> 0, ok |-> FALSE] ELSE [code |-> r.status, ok |-> TRUE]

\* return cn, cerr, with the Skimmer as the call leaves it
Returned(r, cn, cerr) == [rs |-> r, n |-> cn, err |-> cerr, panic |-> FALSE]

\* rs.status, err = strconv.Atoi(string(statusCode));
\* if err != nil || rs.status < 0 { rs.status = -4 }
Parsed(r, a, cn, cerr) ==
    IF a.err # NoError \/ a.n < 0
    THEN Returned([r EXCEPT !.status = -4], cn, cerr)
    ELSE Returned([r EXCEPT !.status = a.n], cn, cerr)

\* statusCode, _, _ := bytes.Cut(status, []byte{' '}); if len(statusCode) != 3 { rs.status = -3 }
ParseStatusCode(r, statusCode, cn, cerr) ==
    IF Len(statusCode) # 3
    THEN Returned([r EXCEPT !.status = -3], cn, cerr)
    ELSE Parsed(r, Atoi(statusCode), cn, cerr)

\* _, status, ok := bytes.Cut(line, []byte{' '}); if !ok { rs.status = -2 };
\* status = bytes.TrimLeft(status, " ")
ParseCut(r, c, cn, cerr) ==
    IF ~c.found
    THEN Returned([r EXCEPT !.status = -2], cn, cerr)
    ELSE ParseStatusCode(r, Cut(TrimLeft(c.after, 32), 32).before, cn, cerr)

\* line := rs.buffer.Bytes(); if len(line) > 0 && line[len(line)-1] == '\r' { line = line[:len(line)-1] }
ParseLine(r, line, cn, cerr) ==
    IF Len(line) > 0 /\ line[Len(line)] = 13
    THEN ParseCut(r, Cut(Take(line, Len(line) - 1), 32), cn, cerr)
    ELSE ParseCut(r, Cut(line, 32), cn, cerr)

\* rs.buffer.Write(p); if rs.buffer.Len() >= rs.limit { rs.status = -1 }
Buffered(r, buffer, cn, cerr) ==
    IF Len(buffer) >= r.limit
    THEN Returned([r EXCEPT !.buffer = buffer, !.status = -1], cn, cerr)
    ELSE Returned([r EXCEPT !.buffer = buffer], cn, cerr)

\* i := bytes.IndexByte(p, '\n'); if i < 0 { ... }; rs.buffer.Write(p[:i])
Scanned(r, p, i, cn, cerr) ==
    IF i < 0 THEN Buffered(r, r.buffer \o p, cn, cerr)
    ELSE ParseLine([r EXCEPT !.buffer = r.buffer \o Take(p, i)], r.buffer \o Take(p, i), cn, cerr)

\* if rs.buffer.Len()+len(p) > rs.limit { p = p[:rs.limit-rs.buffer.Len()] }: a
\* negative bound of the slice is a panic
Examined(r, p, cn, cerr) ==
    IF Len(r.buffer) + Len(p) > r.limit
    THEN IF r.limit - Len(r.buffer) < 0
         THEN [rs |-> r, n |-> 0, err |-> NoError, panic |-> TRUE]
         ELSE Scanned(r, Take(p, r.limit - Len(r.buffer)),
                      IndexByte(Take(p, r.limit - Len(r.buffer)), 10), cn, cerr)
    ELSE Scanned(r, p, IndexByte(p, 10), cn, cerr)

\* a variant without the return for a status that is decided
SkimmerWriteAlways(r, p, cn, cerr) == Examined(r, Take(p, cn), cn, cerr)

\* a variant that returns the count of the bytes it examined
SkimmerWriteExamined(r, p, cn, cerr) ==
    IF r.status # 0 THEN Returned(r, cn, cerr)
    ELSE [Examined(r, Take(p, cn), cn, cerr) EXCEPT
             !.n = Min(cn, r.limit - Len(r.buffer))]

\* a variant that lets the buffer grow past the limit
SkimmerWriteUnlimited(r, p, cn, cerr) ==
    IF r.status # 0 THEN Returned(r, cn, cerr)
    ELSE Scanned(r, Take(p, cn), IndexByte(Take(p, cn), 10), cn, cerr)

\* func (rs *Skimmer) Write(p []byte) (int, error), the connection having
\* answered (cn, cerr) to rs.Conn.Write(p):
\* if rs.status != 0 { return cn, cerr }; p = p[:cn]
SkimmerWrite(r, p, cn, cerr) ==
    IF r.status # 0 THEN Returned(r, cn, cerr)
    ELSE Examined(r, Take(p, cn), cn, cerr)

\* the first lines of the streams, with their newline if they have one
StatusLines ==
    { <<72, 84, 84, 80, 47, 49, 46, 49, 32, 50, 48, 48, 32, 79, 75, 13, 10>>,
      <<72, 32, 52, 48, 52, 10>>,
      <<72, 32, 48, 48, 48, 10>>,
      <<72, 32, 32, 50, 48, 52, 32, 120, 10>>,
      <<72, 32, 43, 49, 50, 10>>,
      <<72, 32, 45, 49, 50, 10>>,
      <<72, 32, 50, 48, 10>>,
      <<72, 32, 50, 120, 48, 10>>,
      <<72, 10>>,
      <<10>>,
      <<13, 10>>,
      <<72, 32, 50, 48, 48>>,
      <<72, 32, 50, 48, 48, 32>> \o [k \in 1..(limit - 7) |-> 120] \o <<10>>,
      <<72, 32, 50, 48, 48, 32>> \o [k \in 1..(limit - 6) |-> 120] \o <<10>> }

\* what is written after the first line
Tails == { <<>>, <<49, 32, 53, 48, 51, 10>>, <<10>> }

Streams == {l \o tl : l \in StatusLines, tl \in Tails}

\* the lengths of the chunks handed to Write
ChunkSizes == {1, 2, 6, limit, limit + 16}

InitSkim ==
    /\ pc = "skim"
    /\ s = [strict |-> FALSE, metaFactory |-> "default"]
    /\ EncIdle
    /\ DecIdle
    /\ GvkIdle
    /\ UnionIdle
    /\ ModesIdle
    /\ PoolIdle
    /\ rs = Skim
    /\ stream \in Streams
    /\ pos = 0
    /\ lastWrite = NoWrite
    /\ connCall = NoConnCall
    /\ writeRet = NoWriteRet
    /\ statusRet = NoStatusRet

\* the outcome of a Write held against the state
Written(p, cn, cerr, r) ==
    /\ lastWrite' = [called |-> TRUE, was |-> rs, p |-> p, cn |-> cn, cerr |-> cerr]
    /\ connCall' = [p |-> p, times |-> 1]
    /\ writeRet' = [n |-> r.n, err |-> r.err, panic |-> r.panic]
    /\ rs' = r.rs
    /\ pos' = pos + cn

\* the next k bytes of the stream, or what is left of it
Chunk(k) == SubSeq(stream, pos + 1, pos + Min(k, Len(stream) - pos))

\* what the connection answers to Write(p) when it drops the last lost bytes
ConnWrite(p, lost) ==
    IF lost = 0 THEN [n |-> Len(p), err |-> NoError]
    ELSE [n |-> IF lost > Len(p) THEN 0 ELSE Len(p) - lost, err |-> Err("io.ErrShortWrite")]

\* rs.Write(p) with p the next k bytes of the stream
SkimWrite(k, lost) ==
    /\ pc = "skim"
    /\ ~writeRet.panic
    /\ pos < Len(stream)
    /\ Written(Chunk(k), ConnWrite(Chunk(k), lost).n, ConnWrite(Chunk(k), lost).err,
               SkimmerWrite(rs, Chunk(k), ConnWrite(Chunk(k), lost).n, ConnWrite(Chunk(k), lost).err))
    /\ UNCHANGED <<pc, s, encVars, decVars, recRet, gvkVars, unionVars, modeVars, poolVars, stream, statusRet>>

\* rs.Status()
SkimStatus ==
    /\ pc = "skim"
    /\ statusRet' = [called |-> TRUE, pos |-> pos, code |-> SkimmerStatus(rs).code, ok |-> SkimmerStatus(rs).ok]
    /\ UNCHANGED <<pc, s, encVars, decVars, recRet, gvkVars, unionVars, modeVars, poolVars,
                   rs, stream, pos, lastWrite, connCall, writeRet>>

\* the bytes a short write drops
Losses == {0, 1, limit + 16}

NextSkim ==
    \/ \E k \in ChunkSizes : \E lost \in Losses : SkimWrite(k, lost)
    \/ SkimStatus

SpecSkim == InitSkim /\ [][NextSkim]_vars

(***************************************************************************)
(* Encode and RecognizesData.                                              *)
(***************************************************************************)
\* C1: once Encode has written, the bytes the writer holds agree with
\* 0xd9 0xd9 0xf7 on their first three positions (no payload byte comes before
\* the tag), and when every Write succeeded all three bytes are there.
C1_TagFirst ==
    w.calls >= 1 =>
        /\ \A k \in 1..Min(3, Len(w.out)) : w.out[k] = <<217, 217, 247>>[k]
        /\ (\A k \in 1..Len(w.errs) : w.errs[k] = NoError) => Len(w.out) >= 3

\* Encode of a struct returned nil after two successful writes: tag, then payload
C1_Witness ==
    /\ pc = "enc_done"
    /\ encRet = NoError
    /\ encObj.type = "Typed"
    /\ w.calls = 2
    /\ Len(w.out) > 3

\* C2: RecognizesData returns (true, false, nil) when the data begins with
\* 0xd9 0xd9 0xf7 and (false, false, nil) otherwise, data shorter than three
\* bytes included.
C2_Recognizes ==
    pc = "rec_done" =>
        /\ recRet.ok = (Len(data) >= 3 /\ data[1] = 217 /\ data[2] = 217 /\ data[3] = 247)
        /\ recRet.unknown = FALSE
        /\ recRet.err = NoError

\* the tag is in the data, but not at its start: not recognized
C2_Witness ==
    /\ pc = "rec_done"
    /\ data = <<255, 217, 217, 247>>
    /\ ~recRet.ok

\* C10: when the Write of the tag returned an error, Encode is done, returns
\* that very error, has made no other Write and has not run the encoder.
C10_TagWriteError ==
    (w.calls >= 1 /\ w.errs[1] # NoError) =>
        /\ pc = "enc_done"
        /\ encRet = w.errs[1]
        /\ w.calls = 1
        /\ encRuns = 0

\* the writer took two bytes of the tag and failed
C10_Witness ==
    /\ pc = "enc_done"
    /\ w.calls = 1
    /\ w.errs = <<Err("io.ErrClosedPipe")>>
    /\ w.out = <<217, 217>>
    /\ encRet = Err("io.ErrClosedPipe")

(***************************************************************************)
(* gvkWithDefaults.                                                        *)
(***************************************************************************)
\* C4: with a default supplied, the result takes Kind from actual unless empty,
\* else from the default; Group and Version both from the default when actual
\* has neither; the default Version alone when actual has no Version and its
\* Group equals the default Group; actual's Group and Version otherwise.
\* Without a default the GVK stays as it is.
C4_Precedence ==
    pc = "gvk_done" =>
        IF gvkArgs.defaultGVK.nil
        THEN gvkRet = gvkArgs.actual
        ELSE /\ gvkRet.Kind = (IF gvkArgs.actual.Kind # <<>> THEN gvkArgs.actual.Kind
                               ELSE gvkArgs.defaultGVK.v.Kind)
             /\ IF gvkArgs.actual.Version = <<>> /\ gvkArgs.actual.Group = <<>>
                THEN /\ gvkRet.Group = gvkArgs.defaultGVK.v.Group
                     /\ gvkRet.Version = gvkArgs.defaultGVK.v.Version
                ELSE IF gvkArgs.actual.Version = <<>>
                        /\ gvkArgs.actual.Group = gvkArgs.defaultGVK.v.Group
                THEN /\ gvkRet.Group = gvkArgs.actual.Group
                     /\ gvkRet.Version = gvkArgs.defaultGVK.v.Version
                ELSE /\ gvkRet.Group = gvkArgs.actual.Group
                     /\ gvkRet.Version = gvkArgs.actual.Version

\* actual has a group other than the default's and no version: no version is taken
C4_Witness ==
    /\ pc = "gvk_done"
    /\ gvkArgs = [actual |-> GVK(StrH, <<>>, <<>>), defaultGVK |-> Ptr(GVK(StrG, StrV, StrK))]
    /\ gvkRet = GVK(StrH, <<>>, StrK)

(***************************************************************************)
(* Decode.                                                                 *)
(***************************************************************************)
\* C3 as stated: with a strict serializer, when the decode pass into a struct
\* meets a map key that is no field of it, Decode returns a StrictDecodingError
\* together with the object, populated by the lax decode of the same bytes.
C3_AsStated ==
    (/\ pc = "dec_done"
     /\ s.strict
     /\ obj # NilObj
     /\ heap0[obj].type = "Typed"
     /\ UnmarshalStruct(Decode, data, heap0[obj].st).err.type = "UnknownFieldError") =>
        /\ decRet.err.type = "StrictDecodingError"
        /\ decRet.obj = obj
        /\ heap[obj].st = UnmarshalStruct(DecodeLax, data, heap0[obj].st).st

\* C3: with a strict serializer, when the decode pass into a struct meets a map
\* key that is no field of it and the lax decode of the same bytes succeeds,
\* Decode returns a StrictDecodingError together with the object, populated by
\* that lax decode.
C3_StrictWarning ==
    (/\ pc = "dec_done"
     /\ s.strict
     /\ obj # NilObj
     /\ heap0[obj].type = "Typed"
     /\ UnmarshalStruct(Decode, data, heap0[obj].st).err.type = "UnknownFieldError"
     /\ UnmarshalStruct(DecodeLax, data, heap0[obj].st).err = NoError) =>
        /\ decRet.err.type = "StrictDecodingError"
        /\ decRet.obj = obj
        /\ heap[obj].st = UnmarshalStruct(DecodeLax, data, heap0[obj].st).st

\* {"z": 1, "kind": "k"} into a zero struct: the warning comes with the
\* object, whose kind only the lax pass can have set
C3_Witness ==
    /\ pc = "dec_done"
    /\ s.strict
    /\ data = <<162>> \o TextItem(StrZ) \o <<1>> \o TextItem(StrKind) \o TextItem(StrK)
    /\ into # NilObj
    /\ heap0[into] = Typed(ZeroStruct)
    /\ decRet.obj = into
    /\ decRet.err.type = "StrictDecodingError"
    /\ heap[into].st.kind = StrK

\* C5: with into = nil and the meta-factory's GVK, defaulted from the caller's
\* when one is given, having no Kind, Decode returns (nil, that GVK,
\* MissingKind); having a Kind but no Version, (nil, that GVK, MissingVersion);
\* the creater is not called in either case.
C5_NoInto ==
    (pc = "dec_done" /\ into = NilObj /\ ~actual.nil) =>
        LET e == IF gvk.nil THEN log[1].gvk ELSE gvkWithDefaults(log[1].gvk, gvk.v)
            created == \E k \in 1..Len(log) : log[k].call = "New"
        IN /\ Len(e.Kind) = 0 =>
                /\ decRet = [obj |-> NilObj, gvk |-> Ptr(e), err |-> Err("MissingKind")]
                /\ ~created
           /\ (Len(e.Kind) # 0 /\ Len(e.Version) = 0) =>
                /\ decRet = [obj |-> NilObj, gvk |-> Ptr(e), err |-> Err("MissingVersion")]
                /\ ~created

\* the Kind comes from the caller's default, the Version from nowhere
C5_Witness ==
    /\ pc = "dec_done"
    /\ into = NilObj
    /\ gvk = Ptr(GVK(<<>>, <<>>, StrJ))
    /\ log[1].gvk = EmptyGVK
    /\ decRet = [obj |-> NilObj, gvk |-> Ptr(GVK(<<>>, <<>>, StrJ)), err |-> Err("MissingVersion")]

\* C6: with into an Unstructured and data that decodes to a map whose
\* apiVersion and kind give a non-empty Version and Kind, Decode returns into
\* itself, holding that map, with a nil error and the GVK that its apiVersion
\* and kind spell.
C6_IntoUnstructured ==
    (pc = "dec_done" /\ into # NilObj /\ IsUnstructured(heap0[into]) /\ ~actual.nil) =>
        LET r == UnmarshalMap(IF s.strict THEN Decode ELSE DecodeLax, data)
            g == UnstructuredGVK(r.mv)
        IN (r.err = NoError /\ Len(g.Kind) # 0 /\ Len(g.Version) # 0) =>
              /\ decRet = [obj |-> into, gvk |-> Ptr(g), err |-> NoError]
              /\ heap[into].Object = r.mv
              /\ r.mv.m[StrKind].v = decRet.gvk.v.Kind
              /\ r.mv.m[StrApiVersion].v =
                    (IF decRet.gvk.v.Group = <<>> THEN decRet.gvk.v.Version
                     ELSE decRet.gvk.v.Group \o StrSlash \o decRet.gvk.v.Version)

\* the meta-factory and the default say g/w, the map says v: v it is, and the
\* content into held before is gone
C6_Witness ==
    /\ pc = "dec_done"
    /\ into # NilObj
    /\ heap0[into] = Unstructured(MapPut(EmptyMap, StrKind, Val("string", StrJ)))
    /\ log[1].gvk = GVK(StrG, <<>>, StrK)
    /\ gvk = Ptr(GVK(StrG, StrW, StrJ))
    /\ decRet.obj = into
    /\ decRet.err = NoError
    /\ decRet.gvk = Ptr(GVK(<<>>, StrV, StrK))
    /\ heap[into].Object.m[StrKind].v = StrK

\* C7: with into an Unstructured and data that decodes to a map, Decode
\* returns MissingKind with a nil object when the map gives no Kind, and
\* MissingVersion with a nil object when it gives a Kind but no Version.
C7_IntoUnstructuredMissing ==
    (pc = "dec_done" /\ into # NilObj /\ IsUnstructured(heap0[into]) /\ ~actual.nil) =>
        LET r == UnmarshalMap(IF s.strict THEN Decode ELSE DecodeLax, data)
            g == UnstructuredGVK(r.mv)
        IN r.err = NoError =>
              /\ Len(g.Kind) = 0 =>
                    decRet.obj = NilObj /\ decRet.err = Err("MissingKind")
              /\ (Len(g.Kind) # 0 /\ Len(g.Version) = 0) =>
                    decRet.obj = NilObj /\ decRet.err = Err("MissingVersion")

\* the default has a Kind, the map has only an apiVersion: MissingKind
C7_Witness ==
    /\ pc = "dec_done"
    /\ into # NilObj
    /\ IsUnstructured(heap0[into])
    /\ gvk = Ptr(GVK(StrG, StrW, StrJ))
    /\ data = <<161>> \o TextItem(StrApiVersion) \o TextItem(StrV)
    /\ decRet.obj = NilObj
    /\ decRet.err = Err("MissingKind")

\* C8: when the typer answers NotRegistered for a non-nil into that is not
\* Unstructured, Decode returns that error with a nil object, no decode pass
\* has run on into, and into is as it was.
C8_NotRegistered ==
    (pc = "dec_done" /\ typer.asked /\ typer.err.type = "NotRegisteredError") =>
        /\ decRet.obj = NilObj
        /\ decRet.err = typer.err
        /\ heap[into] = heap0[into]
        /\ \A k \in 1..Len(log) : log[k].call \notin {"Decode", "DecodeLax"}

\* data that would have populated into, and a typer that does not know it
C8_Witness ==
    /\ pc = "dec_done"
    /\ typer.err.type = "NotRegisteredError"
    /\ heap0[into] = Typed(ZeroStruct)
    /\ data = <<162>> \o TextItem(StrApiVersion) \o TextItem(StrV)
                      \o TextItem(StrKind) \o TextItem(StrK)
    /\ decRet.err.type = "NotRegisteredError"
    /\ decRet.obj = NilObj

\* C9: whenever Decode returns an error other than a StrictDecodingError, the
\* object it returns is nil.
C9_NilObjectOnError ==
    pc = "dec_done" =>
        ((decRet.err # NoError /\ decRet.err.type # "StrictDecodingError") => decRet.obj = NilObj)

\* a decode pass failed half way: the object is touched, and not returned
C9_Witness ==
    /\ pc = "dec_done"
    /\ obj # NilObj
    /\ heap[obj] # heap0[obj]
    /\ decRet.err.type = "UnmarshalTypeError"
    /\ decRet.obj = NilObj

\* C11 as stated: with into = nil and an effective GVK that has a Kind and a
\* Version, the creater is asked once, for that GVK; when it fails Decode
\* returns (nil, that GVK, its error) and no decode pass runs; otherwise the
\* bytes are decoded into the new object, which is returned with that GVK.
C11_AsStated ==
    (pc = "dec_done" /\ into = NilObj /\ ~actual.nil) =>
        LET e == IF gvk.nil THEN log[1].gvk ELSE gvkWithDefaults(log[1].gvk, gvk.v)
            news == {k \in 1..Len(log) : log[k].call = "New"}
            passes == {k \in 1..Len(log) : log[k].call \in {"Decode", "DecodeLax"}}
        IN (Len(e.Kind) # 0 /\ Len(e.Version) # 0) =>
              /\ Cardinality(news) = 1
              /\ \A k \in news : log[k].gvk = e
              /\ creater.asked
              /\ IF creater.err # NoError
                 THEN /\ decRet = [obj |-> NilObj, gvk |-> Ptr(e), err |-> creater.err]
                      /\ passes = {}
                 ELSE /\ passes # {}
                      /\ heap[NewId] = unmarshal(s, data, creater.o).o
                      /\ decRet.obj = NewId
                      /\ decRet.gvk = Ptr(e)

\* C11: as above, but the new object is returned only when its decode succeeds
\* (with no error, or with a StrictDecodingError); when its decode fails Decode
\* returns (nil, that GVK, the decode error).
C11_Creater ==
    (pc = "dec_done" /\ into = NilObj /\ ~actual.nil) =>
        LET e == IF gvk.nil THEN log[1].gvk ELSE gvkWithDefaults(log[1].gvk, gvk.v)
            news == {k \in 1..Len(log) : log[k].call = "New"}
            passes == {k \in 1..Len(log) : log[k].call \in {"Decode", "DecodeLax"}}
            r == unmarshal(s, data, creater.o)
        IN (Len(e.Kind) # 0 /\ Len(e.Version) # 0) =>
              /\ Cardinality(news) = 1
              /\ \A k \in news : log[k].gvk = e
              /\ creater.asked
              /\ IF creater.err # NoError
                 THEN /\ decRet = [obj |-> NilObj, gvk |-> Ptr(e), err |-> creater.err]
                      /\ passes = {}
                 ELSE /\ passes # {}
                      /\ heap[NewId] = r.o
                      /\ decRet.gvk = Ptr(e)
                      /\ IF r.lax = NoError
                         THEN decRet.obj = NewId /\ decRet.err = r.strict
                         ELSE decRet.obj = NilObj /\ decRet.err = r.lax

\* the creater made an Unstructured for the defaulted GVK, and it came back
\* holding the decoded map
C11_Witness ==
    /\ pc = "dec_done"
    /\ into = NilObj
    /\ s.metaFactory = "default"
    /\ gvk = Ptr(GVK(StrG, StrW, StrJ))
    /\ data = <<161>> \o TextItem(StrKind) \o TextItem(StrK)
    /\ creater = [asked |-> TRUE, o |-> Unstructured(NilMap), err |-> NoError]
    /\ decRet = [obj |-> NewId, gvk |-> Ptr(GVK(StrG, StrW, StrK)), err |-> NoError]
    /\ heap[NewId].Object.m[StrKind].v = StrK

\* C12: a serializer that is not strict never returns a StrictDecodingError;
\* when the decode pass into a struct meets nothing wrong but keys that are no
\* fields of it, Decode returns the object, populated by the lax decode, and a
\* nil error.
C12_LaxNoStrictError ==
    (pc = "dec_done" /\ ~s.strict) =>
        /\ decRet.err.type # "StrictDecodingError"
        /\ (/\ obj # NilObj
            /\ heap0[obj].type = "Typed"
            /\ UnmarshalStruct(Decode, data, heap0[obj].st).err.type = "UnknownFieldError"
            /\ UnmarshalStruct(DecodeLax, data, heap0[obj].st).err = NoError) =>
               /\ decRet.obj = obj
               /\ decRet.err = NoError
               /\ heap[obj].st = UnmarshalStruct(DecodeLax, data, heap0[obj].st).st

\* {"z": 1, "kind": "k"} into a zero struct, lax: the kind is set, no error
C12_Witness ==
    /\ pc = "dec_done"
    /\ ~s.strict
    /\ data = <<162>> \o TextItem(StrZ) \o <<1>> \o TextItem(StrKind) \o TextItem(StrK)
    /\ into # NilObj
    /\ heap0[into] = Typed(ZeroStruct)
    /\ decRet.obj = into
    /\ decRet.err = NoError
    /\ heap[into].st.kind = StrK

\* C13: with the default meta-factory, once Interpret has run: on data that is
\* empty, malformed or not a map Decode has returned (nil, nil, an error) and
\* has done nothing else; on a map, the GVK Interpret returns has the Kind of
\* the kind entry and the Group and Version that the apiVersion entry spells
\* ("g/v": g and v; "v": no group and v), whatever other keys there are, and a
\* map of distinct keys with string apiVersion and kind is never refused, by a
\* strict serializer no more than by a lax one.
C13_AsStated ==
    (s.metaFactory = "default" /\ Len(log) >= 1) =>
        LET has(e) == \E i \in 1..(Len(data) - Len(e) + 1) :
                          SubSeq(data, i, i + Len(e) - 1) = e
            hasV == has(TextItem(StrApiVersion) \o TextItem(StrV))
            hasGV == has(TextItem(StrApiVersion) \o TextItem(StrGV))
            hasK == has(TextItem(StrKind) \o TextItem(StrK))
            good == {TextItem(StrApiVersion) \o TextItem(StrV),
                     TextItem(StrApiVersion) \o TextItem(StrGV),
                     TextItem(StrKind) \o TextItem(StrK),
                     TextItem(StrZ) \o <<1>>}
            key(e) == SubSeq(e, 2, 1 + Arg(e[1]))
            goodMaps == {<<160 + Len(es)>> \o Concat(es) :
                            es \in {x \in UNION {[1..n -> good] : n \in 0..MaxPairs} :
                                       \A a, b \in DOMAIN x : a # b => key(x[a]) # key(x[b])}}
        IN IF WellFormed(DecodeLax, data) # NoError \/ ~IsMap(data[Untag(data, 1)])
           THEN /\ pc = "dec_done"
                /\ Len(log) = 1
                /\ decRet.obj = NilObj
                /\ decRet.gvk = NoGVK
                /\ decRet.err # NoError
           ELSE /\ ~actual.nil =>
                     log[1].gvk = GVK(IF hasGV THEN StrG ELSE <<>>,
                                      IF hasGV \/ hasV THEN StrV ELSE <<>>,
                                      IF hasK THEN StrK ELSE <<>>)
                /\ data \in goodMaps => ~actual.nil

\* the same, leaving the data item null aside
C13_ExceptNull ==
    data # <<246>> => C13_AsStated

IntoUnstructuredFailed ==
    /\ pc = "dec_done"
    /\ into # NilObj
    /\ IsUnstructured(heap0[IntoId])
    /\ decRet.err # NoError

\* C22 as stated: when Decode is called with into an unstructured object and
\* returns an error, the content of the caller's into object is the same as
\* before the call.
C22_AsStated ==
    IntoUnstructuredFailed => heap[IntoId].Object = heap0[IntoId].Object

\* what the code keeps of it: the returned object is nil, and into is untouched
\* when the meta-factory fails, which is before s.unmarshal runs
C22_NilObject ==
    IntoUnstructuredFailed =>
        /\ decRet.obj = NilObj
        /\ (\A k \in 1..Len(log) : log[k].call \notin {"Decode", "DecodeLax"}) =>
              heap[IntoId] = heap0[IntoId]

\* the content of into after a failed Decode is what the decode pass left in the
\* local map: the decoded map when the kind or version is missing
C22_DecodedContentStored ==
    IntoUnstructuredFailed /\ decRet.err.type \in {"MissingKind", "MissingVersion"} =>
        heap[IntoId].Object = UnmarshalMap(DecodeLax, data).mv

\* Decode was called with into a struct the typer knows, and has passed the
\* defaulting from the kinds of into
IntoRegistered ==
    /\ pc \in {"dec_check", "dec_create", "dec_unmarshal", "dec_done"}
    /\ into # NilObj
    /\ ~IsUnstructured(heap0[IntoId])
    /\ typer.asked
    /\ typer.err = NoError

\* the GVK the meta-factory read from the wire, and that GVK after the defaulting
\* from the caller's gvk argument
WireGVK == log[1].gvk
CallerDefaulted == IF gvk.nil THEN WireGVK ELSE gvkWithDefaults(WireGVK, gvk.v)

\* C23: when into is a registered, non-unstructured object, the effective GVK is
\* the wire GVK defaulted first from the caller's default (if any) and then from
\* the first GVK the typer reports for into; a non-empty wire field is never
\* replaced, and a field the caller's default supplied is never replaced by the
\* registered type's.
C23_DefaultingOrder ==
    IntoRegistered =>
        /\ actual.v = gvkWithDefaults(CallerDefaulted, typer.gvks[1])
        /\ \A f \in {"Group", "Version", "Kind"} :
              /\ WireGVK[f] # <<>> => actual.v[f] = WireGVK[f]
              /\ CallerDefaulted[f] # <<>> => actual.v[f] = CallerDefaulted[f]
              /\ actual.v[f] \in {WireGVK[f], CallerDefaulted[f], typer.gvks[1][f]}
              /\ gvk.nil => actual.v[f] \in {WireGVK[f], typer.gvks[1][f]}
              /\ ~gvk.nil => CallerDefaulted[f] \in {WireGVK[f], gvk.v[f]}

\* an empty wire GVK, the caller's default gives the kind only, and the kind into
\* is registered under gives the version: the kind of the default is kept
C23_Witness ==
    /\ IntoRegistered
    /\ pc = "dec_done"
    /\ WireGVK = EmptyGVK
    /\ gvk = Ptr(GVK(<<>>, <<>>, StrJ))
    /\ typer.gvks = <<GVK(<<>>, StrV, StrK)>>
    /\ decRet.gvk = Ptr(GVK(<<>>, StrV, StrJ))

\* the object s.unmarshal was handed as Decode first saw it: into when it is an
\* Unstructured, else the object UseOrCreateObject gave
UnmarshalTarget == IF obj # NilObj THEN heap0[obj] ELSE heap0[IntoId]

\* a strict serializer has run s.unmarshal and Decode has returned
StrictUnmarshalled ==
    /\ pc = "dec_done"
    /\ s.strict
    /\ \E k \in 1..Len(log) : log[k].call = "Decode"

\* the strict pass and the lax pass that follows it, on the target
StrictPass == UnmarshalInto(Decode, data, IsUnstructured(UnmarshalTarget), Dest(UnmarshalTarget))
LaxPass == UnmarshalInto(DecodeLax, data, IsUnstructured(UnmarshalTarget), StrictPass.dst)

\* C24: in a strict serializer an error of the strict pass other than an unknown
\* field is returned as it is with a nil object, no lax pass is run and the error
\* is no StrictDecodingError; when the strict pass reports an unknown field and
\* the lax pass fails, the error of the lax pass is returned with a nil object.
C24_FatalErrors ==
    StrictUnmarshalled =>
        /\ StrictPass.err # NoError /\ StrictPass.err.type # "UnknownFieldError" =>
              /\ decRet.err = StrictPass.err
              /\ decRet.obj = NilObj
              /\ decRet.err.type # "StrictDecodingError"
              /\ \A k \in 1..Len(log) : log[k].call # "DecodeLax"
        /\ StrictPass.err.type = "UnknownFieldError" /\ LaxPass.err # NoError =>
              /\ decRet.err = LaxPass.err
              /\ decRet.obj = NilObj
              /\ decRet.err.type # "StrictDecodingError"

\* empty input, a stub meta-factory and a strict serializer: the strict pass fails
\* with EOF, which comes back alone
C24_Witness ==
    /\ StrictUnmarshalled
    /\ data = <<>>
    /\ obj # NilObj
    /\ StrictPass.err # NoError
    /\ decRet.err = StrictPass.err
    /\ decRet.obj = NilObj
    /\ \A k \in 1..Len(log) : log[k].call # "DecodeLax"

\* the second case happens: an unknown field in the strict pass, then a failing lax pass
C24_LaxFails ==
    /\ StrictUnmarshalled
    /\ StrictPass.err.type = "UnknownFieldError"
    /\ LaxPass.err # NoError
    /\ decRet.err = LaxPass.err

(***************************************************************************)
(* The union codecs.                                                       *)
(***************************************************************************)
SchemaUnions == {"JSONSchemaPropsOrBool", "JSONSchemaPropsOrStringArray", "JSONSchemaPropsOrArray"}

\* two union values are equal: same schema presence and schema, same allows flag,
\* same sequences (a nil and an empty slice are the same sequence)
SameUnion(a, b) ==
    /\ a.kind = b.kind
    /\ a.Allows = b.Allows
    /\ a.Schema = b.Schema
    /\ a.Property.a = b.Property.a
    /\ a.JSONSchemas.a = b.JSONSchemas.a

\* the value holds at most one of its cases: a schema comes with no non-empty
\* sequence and, in a JSONSchemaPropsOrBool, with allows = true
OneCase(u) ==
    \/ u.Schema.nil
    \/ CASE u.kind = "JSONSchemaPropsOrBool" -> u.Allows
         [] u.kind = "JSONSchemaPropsOrStringArray" -> Len(u.Property.a) = 0
         [] u.kind = "JSONSchemaPropsOrArray" -> Len(u.JSONSchemas.a) = 0
         [] OTHER -> TRUE

\* a schema union was marshalled with the codec of this format and the bytes were
\* unmarshalled into the receiver
RoundTripped(format) ==
    /\ pc = "union_done"
    /\ wire.from = "Marshal"
    /\ wire.format = format
    /\ unionVal.kind \in SchemaUnions

\* C15 as stated: for every value v of the three schema unions, UnmarshalJSON of
\* MarshalJSON(v) succeeds and leaves the receiver equal to v.
C15_AsStated ==
    RoundTripped("json") => unmarshalErr = NoError /\ SameUnion(receiver, unionVal)

\* C15: for every value v of the three schema unions that holds at most one of its
\* cases (a schema comes with allows = true and with no non-empty sequence),
\* UnmarshalJSON of MarshalJSON(v) succeeds and leaves the receiver equal to v,
\* whatever the receiver held.
C15_JSONRoundTrip ==
    RoundTripped("json") /\ OneCase(unionVal) =>
        unmarshalErr = NoError /\ SameUnion(receiver, unionVal)

\* two schemas went through JSON into a receiver that held other schemas
C15_Witness ==
    /\ RoundTripped("json")
    /\ unionVal = JSONSchemaPropsOrArray(NilSchema, Slice(<<ZeroSchema, JSONSchemaProps(StrA)>>))
    /\ wire.data = JArray(JObject(<<>>) \o <<44>> \o JObject(JMember(StrType, Quoted(StrA))))
    /\ ~receiver0.Schema.nil
    /\ receiver = unionVal

\* where C15 as stated fails: exactly on the values that hold two cases
C15_FailsOnTwoCases ==
    RoundTripped("json") /\ ~OneCase(unionVal) => ~SameUnion(receiver, unionVal)

\* the zero value of a schema union
ZeroUnion(u) ==
    ~u.Allows /\ u.Schema.nil /\ u.Property = NilSlice /\ u.JSONSchemas = NilSlice

\* C16 as stated: for every value v of the three schema unions, the zero value
\* included, UnmarshalCBOR of MarshalCBOR(v) succeeds and leaves the receiver equal
\* to v; the zero value of the two sequence unions marshals to CBOR null.
C16_AsStated ==
    RoundTripped("cbor") =>
        /\ unmarshalErr = NoError
        /\ SameUnion(receiver, unionVal)
        /\ (ZeroUnion(unionVal) /\ unionVal.kind # "JSONSchemaPropsOrBool" => wire.data = cborNull)

\* the same, for the values that hold at most one case: this fails as well
C16_OneCase ==
    RoundTripped("cbor") /\ OneCase(unionVal) =>
        unmarshalErr = NoError /\ SameUnion(receiver, unionVal)

\* what holds: the values that hold at most one case round-trip, but for a
\* JSONSchemaPropsOrArray that marshals to null (no schema, no schemas), which
\* comes back holding a schema, the zero JSONSchemaProps
C16_ExceptNullOrArray ==
    RoundTripped("cbor") /\ OneCase(unionVal) =>
        /\ unmarshalErr = NoError
        /\ (ZeroUnion(unionVal) /\ unionVal.kind # "JSONSchemaPropsOrBool" => wire.data = cborNull)
        /\ IF unionVal.kind = "JSONSchemaPropsOrArray" /\ wire.data = cborNull
           THEN receiver = JSONSchemaPropsOrArray(SchemaPtr(ZeroSchema), NilSlice)
           ELSE SameUnion(receiver, unionVal)

\* C17 as stated: for every value v of the three schema unions, UnmarshalCBOR of
\* MarshalCBOR(v) and UnmarshalJSON of MarshalJSON(v) leave the same value in
\* the receiver.
C17_AsStated ==
    RoundTripped("cbor") =>
        /\ unmarshalErr = NoError
        /\ UnmarshalUnion("json", receiver0, MarshalUnion("json", unionVal).data).err = NoError
        /\ SameUnion(receiver,
                     UnmarshalUnion("json", receiver0, MarshalUnion("json", unionVal).data).val)

\* what holds: the two codecs agree on every value but a JSONSchemaPropsOrArray
\* that marshals to null, where JSON gives neither case and CBOR a schema
C17_ExceptNullOrArray ==
    RoundTripped("cbor") =>
        /\ unmarshalErr = NoError
        /\ UnmarshalUnion("json", receiver0, MarshalUnion("json", unionVal).data).err = NoError
        /\ IF unionVal.kind = "JSONSchemaPropsOrArray" /\ wire.data = cborNull
           THEN /\ receiver = JSONSchemaPropsOrArray(SchemaPtr(ZeroSchema), NilSlice)
                /\ UnmarshalUnion("json", receiver0, MarshalUnion("json", unionVal).data).val
                      = JSONSchemaPropsOrArray(NilSchema, NilSlice)
           ELSE SameUnion(receiver,
                          UnmarshalUnion("json", receiver0, MarshalUnion("json", unionVal).data).val)

\* a null was unmarshalled into a JSON: UnmarshalJSON of the literal null, or
\* UnmarshalCBOR of the one byte 0xf6
NullIntoJSON ==
    /\ pc = "union_done"
    /\ receiver0.kind = "JSON"
    /\ \/ wire.format = "json" /\ wire.data = nullLiteral
       \/ wire.format = "cbor" /\ wire.data = cborNull

\* C18 as stated: after UnmarshalJSON of the literal null and after UnmarshalCBOR of
\* the byte 0xf6 the stored bytes are empty, whatever the receiver held before.
C18_AsStated == NullIntoJSON => receiver.Raw = <<>>

\* C18: UnmarshalJSON of the literal null and UnmarshalCBOR of the byte 0xf6 return
\* no error and leave the stored bytes as they were before the call: empty when
\* the receiver was empty, and the bytes it held otherwise.
C18_NullIsNoOp == NullIntoJSON => unmarshalErr = NoError /\ receiver = receiver0

\* 0xf6 handed to UnmarshalCBOR of a JSON that holds "b"
C18_Witness ==
    /\ NullIntoJSON
    /\ wire.from = "input"
    /\ wire.format = "cbor"
    /\ receiver0 = JSON(Quoted(StrB))
    /\ receiver.Raw = Quoted(StrB)

\* an input was handed to UnmarshalJSON of a JSONSchemaPropsOrBool
OrBoolFromJSON ==
    /\ pc = "union_done"
    /\ wire.format = "json"
    /\ receiver0.kind = "JSONSchemaPropsOrBool"

\* the outcomes of the four accepted inputs of (*JSONSchemaPropsOrBool).UnmarshalJSON
OrBoolAccepted(d) ==
    IF d = <<>> THEN JSONSchemaPropsOrBool(FALSE, NilSchema)
    ELSE IF d = jsTrue THEN JSONSchemaPropsOrBool(TRUE, NilSchema)
    ELSE IF d = jsFalse THEN JSONSchemaPropsOrBool(FALSE, NilSchema)
    ELSE JSONSchemaPropsOrBool(TRUE, SchemaPtr(jsonUnmarshalSchema(d).val))

\* C19 as stated: empty input gives the zero value, an input starting with '{' that
\* parses as a schema gives allows = true with that schema, true and false give
\* the boolean with no schema, and every other input returns the error "boolean
\* or JSON schema expected"; on success the receiver is the new value.
C19_AsStated ==
    OrBoolFromJSON =>
        IF \/ wire.data \in {<<>>, jsTrue, jsFalse}
           \/ wire.data[1] = 123 /\ jsonUnmarshalSchema(wire.data).err = NoError
        THEN unmarshalErr = NoError /\ receiver = OrBoolAccepted(wire.data)
        ELSE unmarshalErr = Err("boolean or JSON schema expected")

\* C19: empty input gives the zero value, an input starting with '{' that parses as
\* a schema gives allows = true with that schema, true and false give the boolean
\* with no schema; an input starting with '{' that does not parse as a schema
\* returns the error of the parse, and every other input returns the error
\* "boolean or JSON schema expected".  On success the receiver is the new value,
\* whatever it held; on an error it is left as it was.
C19_Outcomes ==
    OrBoolFromJSON =>
        IF \/ wire.data \in {<<>>, jsTrue, jsFalse}
           \/ wire.data[1] = 123 /\ jsonUnmarshalSchema(wire.data).err = NoError
        THEN unmarshalErr = NoError /\ receiver = OrBoolAccepted(wire.data)
        ELSE /\ receiver = receiver0
             /\ unmarshalErr = IF wire.data[1] = 123 THEN jsonUnmarshalSchema(wire.data).err
                               ELSE Err("boolean or JSON schema expected")

\* {"type":"a"} read into a receiver that held another schema
C19_Witness ==
    /\ OrBoolFromJSON
    /\ wire.from = "input"
    /\ wire.data = JObject(JMember(StrType, Quoted(StrA)))
    /\ receiver0 = JSONSchemaPropsOrBool(TRUE, SchemaPtr(JSONSchemaProps(StrB)))
    /\ receiver = JSONSchemaPropsOrBool(TRUE, SchemaPtr(JSONSchemaProps(StrA)))
    /\ unmarshalErr = NoError

\* a JSON was marshalled; at "union_done" the bytes were unmarshalled into an
\* empty JSON
JSONMarshalled(format) ==
    /\ pc \in {"union_wire", "union_done"}
    /\ wire.from = "Marshal"
    /\ wire.format = format
    /\ unionVal.kind = "JSON"
    /\ receiver0 = JSON(<<>>)

ValidJSON(raw) == jsonUnmarshalAny(raw).err = NoError

\* the untyped value of a JSON text; a Go map has no order of keys
Untyped(raw) == SortItem(jsonUnmarshalAny(raw).val, 1, FALSE)

IsJSONNull(raw) == ValidJSON(raw) /\ jsonUnmarshalAny(raw).val = <<NilTok>>

C25_LaxIsStrictButUnknownField ==
    /\ \A opt \in DOMAIN Decode \ {"ExtraReturnErrors"} : DecodeLax[opt] = Decode[opt]
    /\ DecodeLax.ExtraReturnErrors = Decode.ExtraReturnErrors \ {"ExtraDecErrorUnknownField"}
    /\ Decode.MaxNestedLevels = 64 /\ Decode.MaxArrayElements = 1024 /\ Decode.MaxMapPairs = 1024
    /\ pc = "modes_done" =>
          /\ strictRet.err = NoError => laxRet = strictRet
          /\ strictRet.err # NoError /\ strictRet.err.type # "UnknownFieldError" =>
                laxRet.err # NoError

\* a map of apiVersion and kind into a struct that held a kind: both modes
\* succeed and leave the same struct
C25_Witness ==
    /\ pc = "modes_done"
    /\ modeIn.data = <<162>> \o TextItem(StrApiVersion) \o TextItem(StrV) \o TextItem(StrKind) \o TextItem(StrK)
    /\ ~modeIn.isU
    /\ modeIn.dst.st = [apiVersion |-> <<>>, kind |-> StrJ]
    /\ strictRet.err = NoError
    /\ strictRet.dst.st = [apiVersion |-> StrV, kind |-> StrK]
    /\ laxRet = strictRet

\* the lax mode returns the very error of the strict mode in the third case, and
\* the only inputs on which the modes differ are those with an unknown field
C25_SameError ==
    pc = "modes_done" /\ strictRet.err.type # "UnknownFieldError" => laxRet = strictRet

\* {"z": 1} into a struct: the strict mode reports the unknown field, the lax mode none
C25_UnknownField ==
    /\ pc = "modes_done"
    /\ modeIn.data = <<161>> \o TextItem(StrZ) \o <<1>>
    /\ strictRet.err.type = "UnknownFieldError"
    /\ laxRet.err = NoError

(***************************************************************************)
(* The pooled serializers.                                                 *)
(***************************************************************************)
\* the items the calls hold, each with the goroutine that holds it
HeldItems == {<<c, calls[c].item>> : c \in {x \in Callers : calls[x].item # NoItem}}

\* no encoder, decoder or buffer is held by two calls at once, or by a call
\* while it is in its pool
Exclusive ==
    /\ \A h1, h2 \in HeldItems :
          h1[1] # h2[1] => <<h1[2].pool, h1[2].id>> # <<h2[2].pool, h2[2].id>>
    /\ \A h \in HeldItems : \A it \in pools[h[2].pool] : it.id # h[2].id

\* C21 as stated: under any interleaving of concurrent Encode and Decode calls no
\* encoder, decoder or buffer is used by two calls at once, and every item in a
\* pool has a zero-length buffer and refers to no writer and no input bytes of
\* the call that used it.
C21_AsStated ==
    pc = "pool" =>
        /\ Exclusive
        /\ \A p \in Pools : \A it \in pools[p] : it.buf = <<>> /\ it.ref = NilRef

\* what holds of the code: items are used by one call at a time, an encoder or
\* decoder only ever touches the writer or data of the call that holds it, and
\* the pooled buffers of the AvroSerializer have length zero
C21_NoSharing ==
    pc = "pool" =>
        /\ Exclusive
        /\ \A c \in Callers : calls[c].wrote \in {NilRef, ArgOf(calls[c].op, c)}
        /\ \A p \in Pools : \A it \in pools[p] : it.buf = <<>>
        /\ \A it \in pools["buffers"] : it.ref = NilRef

\* the encoders and decoders in the pools refer to the writer or the data of the
\* call that put them back
C21_PooledKeepReference ==
    pc = "pool" =>
        \A p \in {"encoderPool", "decoderPool"} : \A it \in pools[p] : it.ref # NilRef

(***************************************************************************)
(* The Skimmer.                                                            *)
(***************************************************************************)
\* C26: Skimmer.Write is transparent: whatever the state of the Skimmer, a
\* Write(p) calls the connection's Write once with p as it was given, and
\* returns the byte count and the error that call returned.
C26_WriteTransparent ==
    pc = "skim" /\ lastWrite.called =>
        /\ connCall = [p |-> lastWrite.p, times |-> 1]
        /\ ~writeRet.panic
        /\ writeRet.n = lastWrite.cn
        /\ writeRet.err = lastWrite.cerr

\* a Write of more bytes than the limit, in which the Skimmer forfeits, returns
\* the count of all the bytes
C26_Witness ==
    /\ pc = "skim"
    /\ lastWrite.called
    /\ lastWrite.was.status = 0
    /\ rs.status = -1
    /\ Len(lastWrite.p) > limit
    /\ writeRet.n = Len(lastWrite.p)
    /\ Len(rs.buffer) = limit

\* a short write to a Skimmer that has its status returns the connection's
\* count and error
C26_ShortWrite ==
    /\ pc = "skim"
    /\ lastWrite.called
    /\ lastWrite.was.status > 0
    /\ lastWrite.cerr # NoError
    /\ writeRet.n < Len(lastWrite.p)
    /\ writeRet.err = lastWrite.cerr

\* C27: the status is decided at most once: once rs.status is not zero no Write
\* changes it or the buffer, and Status() goes on returning the same result.
C27_DecidedOnce ==
    [][rs.status # 0 => rs' = rs /\ SkimmerStatus(rs') = SkimmerStatus(rs)]_vars

\* a Write that the connection took bytes of was made on a Skimmer that had a
\* status code, and Status() has returned that code after it
C27_Witness ==
    /\ pc = "skim"
    /\ lastWrite.called
    /\ lastWrite.was.status > 0
    /\ lastWrite.cn > 0
    /\ rs = lastWrite.was
    /\ statusRet.called
    /\ statusRet.pos = pos
    /\ statusRet = [called |-> TRUE, pos |-> pos, code |-> rs.status, ok |-> TRUE]

\* the bytes the connection has taken, which are the bytes the Skimmer examined
Seen == Take(stream, pos)

\* a newline is among the first limit bytes of sq
NewlineWithinLimit(sq) == \E k \in 1..Min(Len(sq), limit) : sq[k] = 10

\* C28 as stated: once the first newline has been written within the first 64
\* bytes the status is decided, that is not zero, so that no byte after the
\* first newline has a say in it.
C28_AsStated ==
    pc = "skim" /\ NewlineWithinLimit(Seen) => rs.status # 0

\* a first line with the code 000 leaves the status undecided, and the next line
\* written is appended to the buffer and decides it
C28_LaterBytesDecide ==
    /\ pc = "skim"
    /\ lastWrite.called
    /\ NewlineWithinLimit(Take(stream, pos - lastWrite.cn))
    /\ lastWrite.was.status = 0
    /\ Len(rs.buffer) > Len(lastWrite.was.buffer)
    /\ rs.status # 0

\* the bytes of sq before its first newline
FirstLine(sq) == Take(sq, IndexByte(sq, 10))

\* the second of the fields of a line that spaces separate
Fields(line) == Cut(TrimLeft(Cut(line, 32).after, 32), 32).before

\* what holds of the code: after the first newline within the first 64 bytes
\* the status is not zero unless the code of the first line is the number zero
C28_DecidedUnlessZero ==
    pc = "skim" /\ NewlineWithinLimit(Seen) /\ rs.status = 0 =>
        /\ SkimmerWrite(Skim, Seen, IndexByte(Seen, 10) + 1, NoError).rs.status = 0
        /\ Len(Fields(FirstLine(Seen))) = 3
        /\ Atoi(Fields(FirstLine(Seen))) = [n |-> 0, err |-> NoError]

\* the status code the first line of sq carries: the second of the fields
\* that spaces separate, when it is three decimal digits; -1 when there is none
CodeOf(sq) ==
    IF /\ Len(Fields(FirstLine(sq))) = 3
       /\ \A k \in 1..3 : Fields(FirstLine(sq))[k] \in 48..57
    THEN DigitsValue(Fields(FirstLine(sq)))
    ELSE -1

\* C29 as stated: Status() returns ok = true only when a three-digit code has
\* been parsed from a complete first line, and returns that code with it; before
\* a newline has been written, the time before the first Write included, and
\* after a forfeit or a failure to parse, it returns (0, false).
C29_AsStated ==
    pc = "skim" /\ statusRet.called =>
        /\ statusRet.ok =>
              /\ NewlineWithinLimit(Take(stream, statusRet.pos))
              /\ CodeOf(Take(stream, statusRet.pos)) = statusRet.code
        /\ ~NewlineWithinLimit(Take(stream, statusRet.pos)) =>
              ~statusRet.ok /\ statusRet.code = 0

\* Status() of a Skimmer nothing was written through returns (0, true)
C29_OkBeforeFirstWrite ==
    pc = "skim" /\ statusRet.called /\ statusRet.pos = 0 =>
        statusRet.code = 0 /\ statusRet.ok

\* what holds of the code: ok is false exactly when the status is negative, and
\* a status that is positive is the number strconv.Atoi read in the second field
\* of the first line
C29_StatusOfField ==
    pc = "skim" /\ statusRet.called =>
        /\ ~statusRet.ok =>
              /\ statusRet.code = 0
              /\ NewlineWithinLimit(Take(stream, statusRet.pos)) \/ statusRet.pos >= limit
        /\ statusRet.ok /\ statusRet.code # 0 =>
              /\ NewlineWithinLimit(Take(stream, statusRet.pos))
              /\ Atoi(Fields(FirstLine(stream))).n = statusRet.code

\* C30: the buffer never holds more than limit bytes, so that the bound
\* limit - buffer.Len() of the slice in Write is never negative and Write never
\* panics; and once limit bytes have been written without a newline the status
\* is negative and the buffer holds those bytes and no more.
C30_BufferWithinLimit ==
    pc = "skim" =>
        /\ Len(rs.buffer) <= rs.limit
        /\ rs.limit = limit
        /\ ~writeRet.panic
        /\ pos >= limit /\ ~NewlineWithinLimit(Seen) =>
              rs.status < 0 /\ rs.buffer = Take(stream, limit)

\* bytes were written after limit bytes without a newline
C30_Witness ==
    /\ pc = "skim"
    /\ ~NewlineWithinLimit(Seen)
    /\ pos > limit
    /\ lastWrite.called
    /\ lastWrite.was.status = -1
    /\ lastWrite.cn > 0
    /\ Len(rs.buffer) = limit

\* the buffer is full to one byte and the Write found the status line
C30_LineOfLimit ==
    /\ pc = "skim"
    /\ lastWrite.called
    /\ Len(lastWrite.was.buffer) + Len(lastWrite.p) > limit
    /\ lastWrite.was.status = 0
    /\ rs.status = 200
    /\ Len(rs.buffer) = limit - 1

====
